---- MODULE Spec2Model ----
(***************************************************************************)
(* LocalFix: the issue lifecycle, the application (bid) workflow, the      *)
(* proof workflow and the payment / withdrawal ledger.                     *)
(*                                                                         *)
(* The store is the PostgreSQL schema of database/migrations (tables,      *)
(* constraints and triggers); the processes are the express handlers of    *)
(* server/controllers.  A handler is split at its awaits: every            *)
(* executeQuery (one autocommit statement) is one step against the store,  *)
(* and the handler's answer is built in the step of its last statement.    *)
(* Requests of different actors interleave between these steps.  The store *)
(* runs at PostgreSQL's default isolation (read committed): a statement    *)
(* reads what is committed when it runs, and a transaction's writes are    *)
(* seen by the others at its COMMIT.  applyForIssue's transaction is two   *)
(* steps, its INSERT and its COMMIT; createPayments' transaction is one    *)
(* step per statement; the other transactions (executeMultipleQueries)     *)
(* are one step each.                                                      *)
(***************************************************************************)
EXTENDS Integers, FiniteSets, Sequences, TLC

(***************************************************************************)
(* Bounds of the model.                                                    *)
(***************************************************************************)
NumWorkers == 2         \* users 1..NumWorkers are workers
MaxAppId == 2           \* applications_application_id_seq stops here
MaxWithdrawals == 2     \* withdrawal rows per model run
MaxAmount == 2          \* amounts are 1..MaxAmount
MaxBatch == 2           \* items of one createPayments call

\* SQL NULL in an id column (ids start at 1)
NULL == 0

\* the issues that exist, all reported by the one citizen
Issues == {1}
\* the requests that can be in flight at the same moment
ReqIds == {1, 2}

Workers == 1..NumWorkers
AdminId == NumWorkers + 1
CitizenId == NumWorkers + 2
Admins == {AdminId}
Citizens == {CitizenId}
Users == Workers \cup Admins \cup Citizens
Amounts == 1..MaxAmount

\* users.user_type
UserType(u) ==
    IF u \in Workers THEN "worker"
    ELSE IF u \in Admins THEN "admin"
    ELSE "citizen"

IssueStatuses ==
    {"submitted", "applied", "assigned", "in_progress", "under_review",
     "resolved", "closed"}

\* feedback texts: none (SQL NULL), the admin's own text, the cascade's text
NoFeedback == "null"
AdminFeedback == "admin feedback"
StdFeedback == "Application rejected due to another worker being selected"

\* error codes of the store
OK == "ok"
UniqueViolation == "23505"
RaiseException == "P0001"
CheckViolation == "23514"

VARIABLES db, reqs, out

vars == <<db, reqs, out>>

(***************************************************************************)
(* Arithmetic over sets of rows.                                           *)
(***************************************************************************)
RECURSIVE SumAmount(_)
SumAmount(rows) ==
    IF rows = {} THEN 0
    ELSE LET r == CHOOSE x \in rows : TRUE
         IN  r.amount + SumAmount(rows \ {r})

(***************************************************************************)
(* A statement's outcome: the store after it, its rowCount and its error   *)
(* code.  A failed statement leaves the store as it found it.              *)
(***************************************************************************)
Done(d, n) == [db |-> d, rowCount |-> n, err |-> OK]
Fail(d, code) == [db |-> d, rowCount |-> 0, err |-> code]

(***************************************************************************)
(* applications: triggers and statements.                                  *)
(***************************************************************************)
AppsOf(d, i) == {a \in d.apps : a.issue_id = i}

\* the trigger without its test of the reviewer's role
ReviewedAtUnchecked(reviewed_by) ==
    TRUE

\* BEFORE UPDATE OF status: only an admin may be the reviewer
ReviewedAtOk(reviewed_by) ==
    reviewed_by = NULL \/ UserType(reviewed_by) = "admin"

\* BEFORE INSERT: the applicant is a worker and the issue is open
InsertValidateOk(d, i, w) ==
    /\ UserType(w) = "worker"
    /\ d.issues[i].status \in {"submitted", "applied"}

\* the row of an INSERT: status DEFAULT 'submitted', no review yet
NewApplication(id, i, w) ==
    [application_id |-> id, issue_id |-> i, worker_id |-> w,
     status |-> "submitted", feedback |-> NoFeedback, reviewed_by |-> NULL]

\* INSERT INTO applications (issue_id, worker_id, ...): the trigger and the
\* unique constraint have passed, the sequence has moved on; the row is
\* in the store when the transaction commits
InsertApplication(d, i, w) ==
    IF ~InsertValidateOk(d, i, w) THEN Fail(d, RaiseException)
    ELSE IF \E a \in d.apps : a.issue_id = i /\ a.worker_id = w
    THEN Fail(d, UniqueViolation)
    ELSE Done([d EXCEPT !.nextAppId = @ + 1], 1)

\* COMMIT of the transaction that has inserted application id
CommitApplication(d, id, i, w) ==
    [d EXCEPT !.apps = @ \cup {NewApplication(id, i, w)}]

\* the UPDATE with a WHERE clause that matches no row
SetIssueAppliedNoRow(d, i) ==
    Done(d, 0)

\* UPDATE issues SET status = 'applied' WHERE issue_id = i
SetIssueApplied(d, i) ==
    Done([d EXCEPT !.issues[i].status = "applied"], 1)

\* the trigger without its second UPDATE: the issue is assigned and the
\* other applications are left as they are
TrgApplicationsStatusUpdateNoCascade(d, old, new) ==
    IF new.status = "accepted" /\ old.status # "accepted"
    THEN [d EXCEPT
            !.issues[new.issue_id] =
                [@ EXCEPT !.status = "assigned",
                          !.assigned_worker_id = new.worker_id]]
    ELSE d

\* AFTER UPDATE OF status: the acceptance workflow (the cascade)
TrgApplicationsStatusUpdate(d, old, new) ==
    IF new.status = "accepted" /\ old.status # "accepted"
    THEN [d EXCEPT
            !.issues[new.issue_id] =
                [@ EXCEPT !.status = "assigned",
                          !.assigned_worker_id = new.worker_id],
            !.apps = {IF /\ x.issue_id = new.issue_id
                         /\ x.application_id # new.application_id
                         /\ x.status \in {"submitted", "under_review"}
                      THEN [x EXCEPT !.status = "rejected",
                                     !.reviewed_by = new.reviewed_by]
                      ELSE x : x \in @}]
    ELSE d

\* UPDATE applications SET status, feedback, reviewed_by
\*  WHERE application_id = a AND issue_id = i
UpdateApplicationStatus(d, a, i, status, feedback, admin) ==
    LET rows == {x \in d.apps : x.application_id = a /\ x.issue_id = i}
    IN  IF rows = {} THEN Done(d, 0)
        ELSE IF ~ReviewedAtOk(admin) THEN Fail(d, RaiseException)
        ELSE LET old == CHOOSE x \in rows : TRUE
                 new == [old EXCEPT !.status = status,
                                    !.feedback = feedback,
                                    !.reviewed_by = admin]
                 d1 == [d EXCEPT !.apps = (@ \ {old}) \cup {new}]
             IN  Done(TrgApplicationsStatusUpdate(d1, old, new), 1)

\* UPDATE issues SET assigned_worker_id = w, status = 'assigned'
\*  WHERE issue_id = i
AssignWorker(d, i, w) ==
    Done([d EXCEPT !.issues[i] = [@ EXCEPT !.status = "assigned",
                                           !.assigned_worker_id = w]], 1)

\* UPDATE applications SET status = 'rejected', feedback = the standard text
\*  WHERE issue_id = i AND application_id != a
\*    AND status IN ('applied', 'under_review')
RejectOtherApplications(d, admin, i, a) ==
    LET rows == {x \in d.apps : /\ x.issue_id = i
                                /\ x.application_id # a
                                /\ x.status \in {"applied", "under_review"}}
    IN  IF rows = {} THEN Done(d, 0)
        ELSE IF ~ReviewedAtOk(admin) THEN Fail(d, RaiseException)
        ELSE Done([d EXCEPT
                     !.apps = {IF x \in rows
                               THEN [x EXCEPT !.status = "rejected",
                                              !.feedback = StdFeedback,
                                              !.reviewed_by = admin]
                               ELSE x : x \in @}],
                  Cardinality(rows))

\* DELETE FROM applications WHERE issue_id = i AND worker_id = w
DeleteAnyApplication(d, i, w) ==
    LET rows == {x \in d.apps : x.issue_id = i /\ x.worker_id = w}
    IN  Done([d EXCEPT !.apps = @ \ rows], Cardinality(rows))

\* DELETE FROM applications
\*  WHERE issue_id = i AND worker_id = w AND status = 'rejected'
DeleteRejectedApplication(d, i, w) ==
    LET rows == {x \in d.apps : /\ x.issue_id = i
                                /\ x.worker_id = w
                                /\ x.status = "rejected"}
    IN  Done([d EXCEPT !.apps = @ \ rows], Cardinality(rows))

\* UPDATE issues SET status = 'submitted'
\*  WHERE issue_id = i AND status = 'applied'
ReopenIssue(d, i) ==
    IF d.issues[i].status = "applied"
    THEN Done([d EXCEPT !.issues[i].status = "submitted"], 1)
    ELSE Done(d, 0)

(***************************************************************************)
(* issues: the start-work statement.                                       *)
(***************************************************************************)
\* the UPDATE without its status condition
StartWorkAnyStatus(d, i, w) ==
    IF d.issues[i].assigned_worker_id = w
    THEN Done([d EXCEPT !.issues[i].status = "in_progress"], 1)
    ELSE Done(d, 0)

\* UPDATE issues SET status = 'in_progress'
\*  WHERE issue_id = i AND assigned_worker_id = w AND status = 'assigned'
StartWork(d, i, w) ==
    IF d.issues[i].assigned_worker_id = w /\ d.issues[i].status = "assigned"
    THEN Done([d EXCEPT !.issues[i].status = "in_progress"], 1)
    ELSE Done(d, 0)

(***************************************************************************)
(* issue_proofs: triggers and statements.                                  *)
(***************************************************************************)
\* the trigger without its tests of the issue
ProofSubmittedUnchecked(d, i, w) ==
    UserType(w) = "worker"

\* BEFORE INSERT: the submitter is the assigned worker and the issue is
\* assigned or in progress
ProofSubmittedOk(d, i, w) ==
    /\ UserType(w) = "worker"
    /\ d.issues[i].assigned_worker_id # NULL
    /\ d.issues[i].assigned_worker_id = w
    /\ d.issues[i].status \in {"assigned", "in_progress"}

\* issue_proofs without the unique constraint
UkProofsIssueDropped(d, i) ==
    TRUE

\* CONSTRAINT uk_proofs_issue UNIQUE (issue_id)
UkProofsIssue(d, i) == \A p \in d.proofs : p.issue_id # i

\* INSERT INTO issue_proofs (issue_id, worker_id, ...); the BEFORE INSERT
\* trigger runs first and moves the issue to 'under_review', then the row
\* meets the unique constraint
InsertProof(d, i, w) ==
    IF ~ProofSubmittedOk(d, i, w) THEN Fail(d, RaiseException)
    ELSE IF ~UkProofsIssue(d, i) THEN Fail(d, UniqueViolation)
    ELSE Done([d EXCEPT
                 !.issues[i].status = "under_review",
                 !.proofs = @ \cup {[proof_id |-> d.nextProofId,
                                     issue_id |-> i, worker_id |-> w,
                                     verification_status |-> "pending",
                                     verified_by |-> NULL]},
                 !.nextProofId = @ + 1], 1)

\* UPDATE issues SET status = 'under_review'
\*  WHERE issue_id = i AND assigned_worker_id = w
SetIssueUnderReview(d, i, w) ==
    IF d.issues[i].assigned_worker_id = w
    THEN Done([d EXCEPT !.issues[i].status = "under_review"], 1)
    ELSE Done(d, 0)

\* BEFORE UPDATE OF verified_by: only an admin may verify
ProofVerifiedAdminOk(verified_by) ==
    verified_by = NULL \/ UserType(verified_by) = "admin"

\* the trigger without its second branch: a rejection leaves the issue
TrgProofVerifiedAfterApprovalOnly(d, new) ==
    IF new.verification_status = "approved"
    THEN [d EXCEPT !.issues[new.issue_id].status = "resolved"]
    ELSE d

\* AFTER UPDATE OF verification_status: the issue follows the verdict
TrgProofVerifiedAfter(d, new) ==
    IF new.verification_status = "approved"
    THEN [d EXCEPT !.issues[new.issue_id].status = "resolved"]
    ELSE IF new.verification_status = "rejected"
    THEN [d EXCEPT !.issues[new.issue_id].status = "in_progress"]
    ELSE d

\* UPDATE issue_proofs SET verification_status, admin_feedback, verified_by
\*  WHERE proof_id = p
UpdateProofStatus(d, p, status, admin) ==
    LET rows == {x \in d.proofs : x.proof_id = p}
    IN  IF rows = {} THEN Done(d, 0)
        ELSE IF ~ProofVerifiedAdminOk(admin) THEN Fail(d, RaiseException)
        ELSE LET old == CHOOSE x \in rows : TRUE
                 new == [old EXCEPT !.verification_status = status,
                                    !.verified_by = admin]
                 d1 == [d EXCEPT !.proofs = (@ \ {old}) \cup {new}]
             IN  Done(TrgProofVerifiedAfter(d1, new), 1)

(***************************************************************************)
(* payments and withdrawals: triggers and statements.                      *)
(***************************************************************************)
\* payments without the trigger
TrgPaymentCompletedDropped(d, new) ==
    d

\* AFTER INSERT OR UPDATE OF payment_status: a completed payment closes the
\* issue
TrgPaymentCompleted(d, new) ==
    IF new.payment_status = "completed"
    THEN [d EXCEPT !.issues[new.issue_id].status = "closed"]
    ELSE d

\* payments without the unique constraint
UkPaymentsIssueDropped(d, i) ==
    TRUE

\* CONSTRAINT uk_payments_issue UNIQUE (issue_id)
UkPaymentsIssue(d, i) == \A p \in d.payments : p.issue_id # i

\* INSERT INTO payments (issue_id, citizen_id, worker_id, amount, ...,
\*  payment_status) VALUES (..., 'completed', ...)
InsertPayment(d, item) ==
    IF ~(item.amount > 0) THEN Fail(d, CheckViolation)
    ELSE IF ~UkPaymentsIssue(d, item.issueId) THEN Fail(d, UniqueViolation)
    ELSE LET new == [issue_id |-> item.issueId,
                     citizen_id |-> item.citizenId,
                     worker_id |-> item.workerId,
                     amount |-> item.amount,
                     payment_status |-> "completed"]
         IN  Done(TrgPaymentCompleted(
                      [d EXCEPT !.payments = @ \cup {new}], new), 1)

\* a COMMIT that stores the rows without what their trigger has written
TxViewRowsOnly(d, tx) ==
    [d EXCEPT !.payments = @ \cup tx]

\* the store as a transaction that has inserted the payments tx sees it,
\* and as everyone sees it once the transaction has committed
RECURSIVE TxView(_, _)
TxView(d, tx) ==
    IF tx = {} THEN d
    ELSE LET new == CHOOSE x \in tx : TRUE
         IN  TxView(TrgPaymentCompleted(
                        [d EXCEPT !.payments = @ \cup {new}], new),
                    tx \ {new})

\* SELECT COALESCE(SUM(CASE WHEN payment_status = 'completed' THEN amount
\*  END), 0) FROM payments WHERE worker_id = w
TotalEarnings(d, w) ==
    SumAmount({p \in d.payments :
                 p.worker_id = w /\ p.payment_status = "completed"})

\* SELECT COALESCE(SUM(CASE WHEN status IN ('successful','processing') THEN
\*  amount END), 0) FROM withdrawals WHERE worker_id = w
Withdrawn(d, w) ==
    SumAmount({x \in d.withdrawals :
                 x.worker_id = w /\ x.status \in {"successful", "processing"}})

Max(a, b) == IF a >= b THEN a ELSE b

\* Math.max(0, totalEarnings - withdrawn)
Available(totalEarnings, withdrawn) == Max(0, totalEarnings - withdrawn)

\* INSERT INTO withdrawals (worker_id, ..., amount, status)
\*  VALUES (w, ..., amt, 'processing')
InsertWithdrawal(d, w, amt) ==
    IF ~(amt > 0) THEN Fail(d, CheckViolation)
    ELSE Done([d EXCEPT
                 !.withdrawals = @ \cup {[withdrawal_id |-> d.nextWithdrawalId,
                                          worker_id |-> w, amount |-> amt,
                                          status |-> "processing"]},
                 !.nextWithdrawalId = @ + 1], 1)

(***************************************************************************)
(* Values as the handlers see them.  node-postgres hands a bigint, which a *)
(* COUNT is, to JavaScript as a string; the handlers compare with ===.     *)
(***************************************************************************)
JsNumber(n) == [t |-> "number", v |-> n]
JsString(n) == [t |-> "string", v |-> n]   \* the decimal text of n
PgCount(n) == JsString(n)
\* x || y: a string is falsy only when empty, and a count's text never is
JsOr(x, y) == IF x.t = "number" /\ x.v = 0 THEN y ELSE x
\* x == y, which converts the text of a number
LooseEquals(x, y) ==
    x.v = y.v

\* x === y
StrictEquals(x, y) == x.t = y.t /\ x.v = y.v

\* texts of a request body: none, a blank, a letter
Texts == {<<>>, <<" ">>, <<"x">>}

\* String.prototype.trim
RECURSIVE Trim(_)
Trim(t) ==
    IF t = <<>> THEN t
    ELSE IF Head(t) = " " THEN Trim(Tail(t))
    ELSE IF t[Len(t)] = " " THEN Trim(SubSeq(t, 1, Len(t) - 1))
    ELSE t

\* !text: only the empty string is falsy
Not(t) == t = <<>>

(***************************************************************************)
(* Requests.  A slot holds one request in flight: the handler (op), its    *)
(* position (pc), its parameters, the values it has read so far (st, num,  *)
(* cnt) and the rows its open transaction has inserted (tx).  out is the request that has answered in the last step, with *)
(* its response: the status code, the message, and the count the body      *)
(* carries (n).  A message that the handler builds from a value it has     *)
(* read is given by its fixed beginning.                                   *)
(***************************************************************************)
NoResp == [code |-> 0, msg |-> "none", n |-> 0]
Resp(c, m) == [code |-> c, msg |-> m, n |-> 0]
RespN(c, m, k) == [code |-> c, msg |-> m, n |-> k]

Idle ==
    [op |-> "none", pc |-> "idle", issue |-> NULL, user |-> NULL,
     target |-> NULL, amt |-> 0, st |-> "null", num |-> 0,
     cnt |-> JsNumber(0), tx |-> {}, resp |-> NoResp]

Free(r) == reqs[r].pc = "idle"
At(r, op, pc) == reqs[r].op = op /\ reqs[r].pc = pc
InFlight(op) == {r \in ReqIds : reqs[r].op = op}

\* a request arrives in slot r
Arrive(op, i, u, t, amt) ==
    [Idle EXCEPT !.op = op, !.issue = i, !.user = u, !.target = t,
                 !.amt = amt]
\* the request reads on: next position, values read
Goto(q, pc, st, num) == [q EXCEPT !.pc = pc, !.st = st, !.num = num]
\* the request answers: its locals are gone
Answer(q, resp) ==
    [q EXCEPT !.pc = "done", !.st = "null", !.num = 0,
              !.cnt = JsNumber(0), !.tx = {}, !.resp = resp]
\* slot r moves on to q2; a request that has answered leaves its slot, and
\* out is the answer given in this step, if any
Emit(r, q2) ==
    IF q2.pc = "done"
    THEN reqs' = [reqs EXCEPT ![r] = Idle] /\ out' = q2
    ELSE reqs' = [reqs EXCEPT ![r] = q2] /\ out' = Idle

\* the store after the migrations and the creation of the issues
FreshDb ==
    [issues |-> [i \in Issues |->
                    [status |-> "submitted",
                     assigned_worker_id |-> NULL,
                     citizen_id |-> CitizenId]],
     apps |-> {},
     nextAppId |-> 1,
     proofs |-> {},
     nextProofId |-> 1,
     payments |-> {},
     withdrawals |-> {},
     nextWithdrawalId |-> 1,
     checkedOut |-> 0]

\* the store after every worker has applied for every issue
AppliedDb ==
    [FreshDb EXCEPT
        !.issues = [i \in Issues |->
                       [status |-> "applied",
                        assigned_worker_id |-> NULL,
                        citizen_id |-> CitizenId]],
        !.apps = {NewApplication((i - 1) * NumWorkers + w, i, w) :
                      i \in Issues, w \in Workers},
        !.nextAppId = Cardinality(Issues) * NumWorkers + 1]

\* the store after w has applied for every issue and an admin has accepted
\* the applications
AssignedDb(w) ==
    [FreshDb EXCEPT
        !.issues = [i \in Issues |->
                       [status |-> "assigned",
                        assigned_worker_id |-> w,
                        citizen_id |-> CitizenId]],
        !.apps = {[application_id |-> i, issue_id |-> i, worker_id |-> w,
                   status |-> "accepted", feedback |-> AdminFeedback,
                   reviewed_by |-> AdminId] : i \in Issues},
        !.nextAppId = Cardinality(Issues) + 1]

\* ... and after w has submitted a proof for every issue
UnderReviewDb(w) ==
    [AssignedDb(w) EXCEPT
        !.issues = [i \in Issues |->
                       [status |-> "under_review",
                        assigned_worker_id |-> w,
                        citizen_id |-> CitizenId]],
        !.proofs = {[proof_id |-> i, issue_id |-> i, worker_id |-> w,
                     verification_status |-> "pending",
                     verified_by |-> NULL] : i \in Issues},
        !.nextProofId = Cardinality(Issues) + 1]

\* ... and after an admin has approved the proofs
ResolvedDb(w) ==
    [AssignedDb(w) EXCEPT
        !.issues = [i \in Issues |->
                       [status |-> "resolved",
                        assigned_worker_id |-> w,
                        citizen_id |-> CitizenId]],
        !.proofs = {[proof_id |-> i, issue_id |-> i, worker_id |-> w,
                     verification_status |-> "approved",
                     verified_by |-> AdminId] : i \in Issues},
        !.nextProofId = Cardinality(Issues) + 1]

Init ==
    /\ db = FreshDb
    /\ reqs = [r \in ReqIds |-> Idle]
    /\ out = Idle

InitAssigned ==
    /\ \E w \in Workers : db = AssignedDb(w)
    /\ reqs = [r \in ReqIds |-> Idle]
    /\ out = Idle

InitApplied ==
    /\ db = AppliedDb
    /\ reqs = [r \in ReqIds |-> Idle]
    /\ out = Idle

\* the issues are the first worker's (the workers are interchangeable)
InitUnderReview ==
    /\ db = UnderReviewDb(1)
    /\ reqs = [r \in ReqIds |-> Idle]
    /\ out = Idle

\* two resolved issues of the first worker, for the payment batches
BatchIssues == {1, 2}
BatchDb ==
    [FreshDb EXCEPT
        !.issues = [i \in BatchIssues |->
                       [status |-> "resolved",
                        assigned_worker_id |-> 1,
                        citizen_id |-> CitizenId]],
        !.apps = {[application_id |-> i, issue_id |-> i, worker_id |-> 1,
                   status |-> "accepted", feedback |-> AdminFeedback,
                   reviewed_by |-> AdminId] : i \in BatchIssues},
        !.nextAppId = Cardinality(BatchIssues) + 1,
        !.proofs = {[proof_id |-> i, issue_id |-> i, worker_id |-> 1,
                     verification_status |-> "approved",
                     verified_by |-> AdminId] : i \in BatchIssues},
        !.nextProofId = Cardinality(BatchIssues) + 1]

InitBatch ==
    /\ db = BatchDb
    /\ reqs = [r \in ReqIds |-> Idle]
    /\ out = Idle

InitLedger ==
    /\ \/ db = FreshDb
       \/ \E w \in Workers : db = ResolvedDb(w)
    /\ reqs = [r \in ReqIds |-> Idle]
    /\ out = Idle

(***************************************************************************)
(* applyForIssue                                                           *)
(***************************************************************************)
\* the validation of the request body; "ok" when it passes
ApplyInvalid(estimated_cost, estimated_time, proposal_description) ==
    IF estimated_cost = 0 \/ Not(estimated_time) \/ Not(proposal_description)
    THEN "Missing required fields: estimated_cost, estimated_time, proposal_description"
    ELSE IF estimated_cost <= 0
    THEN "Estimated cost must be greater than 0"
    ELSE IF Not(Trim(proposal_description))
    THEN "Proposal description cannot be empty"
    ELSE "ok"

\* a call whose body does not pass the validation
ApplyValidation(r, w, estimated_cost, estimated_time, proposal_description) ==
    /\ Free(r)
    /\ ApplyInvalid(estimated_cost, estimated_time, proposal_description) # "ok"
    /\ Emit(r,
            Answer(Arrive("applyForIssue", NULL, w, NULL, 0),
                   Resp(400, ApplyInvalid(estimated_cost, estimated_time,
                                          proposal_description))))
    /\ UNCHANGED db

\* SELECT status FROM issues WHERE issue_id = i (the body has passed the
\* validation)
ApplyIssueCheck(r, i, w) ==
    /\ Free(r)
    /\ db.nextAppId + Cardinality({r2 \in InFlight("applyForIssue") :
                                       reqs[r2].pc # "commit"}) <= MaxAppId
    /\ LET q == Arrive("applyForIssue", i, w, NULL, 0)
           currentStatus == db.issues[i].status
       IN  Emit(r,
                IF currentStatus \notin {"submitted", "applied"}
                THEN Answer(q, Resp(400, "Issue is not available for applications."))
                ELSE Goto(q, "existingApp", currentStatus, 0))
    /\ UNCHANGED db

\* SELECT application_id FROM applications WHERE issue_id AND worker_id
ApplyExistingApp(r) ==
    /\ At(r, "applyForIssue", "existingApp")
    /\ LET q == reqs[r]
       IN  Emit(r,
                IF \E a \in db.apps :
                       a.issue_id = q.issue /\ a.worker_id = q.user
                THEN Answer(q, Resp(409, "You have already applied for this issue"))
                ELSE Goto(q, "tx", q.st, 0))
    /\ UNCHANGED db

\* the transaction's INSERT.  It waits while another transaction that has
\* inserted the same (issue, worker) has not committed.  A failed
\* transaction is thrown as its message text, which has no code: the
\* handler's test for 23505 never holds
ApplyInsert(r) ==
    /\ At(r, "applyForIssue", "tx")
    /\ \A r2 \in ReqIds \ {r} :
           At(r2, "applyForIssue", "commit")
               => ~(reqs[r2].issue = reqs[r].issue /\ reqs[r2].user = reqs[r].user)
    /\ LET q == reqs[r]
           r1 == InsertApplication(db, q.issue, q.user)
       IN  /\ db' = r1.db
           /\ Emit(r,
                  IF r1.err = OK
                  THEN Goto(q, "commit", q.st, db.nextAppId)
                  ELSE Answer(q, Resp(500, "Internal server error occurred")))

\* the rest of the transaction: UPDATE issues if the status read was
\* 'submitted', and COMMIT
ApplyCommit(r) ==
    /\ At(r, "applyForIssue", "commit")
    /\ LET q == reqs[r]
           d1 == CommitApplication(db, q.num, q.issue, q.user)
           r2 == IF q.st = "submitted"
                 THEN SetIssueApplied(d1, q.issue)
                 ELSE Done(d1, 1)
       IN  /\ db' = r2.db
           /\ Emit(r,
                  Answer(q, Resp(201, "Application submitted successfully!")))

(***************************************************************************)
(* acceptIssueApplication                                                  *)
(***************************************************************************)
\* SELECT worker_id, status FROM applications
\*  WHERE application_id = a AND issue_id = i
AcceptAppCheck(r, i, a, admin) ==
    /\ Free(r)
    /\ LET q == Arrive("acceptIssueApplication", i, admin, a, 0)
           rows == {x \in db.apps : x.application_id = a /\ x.issue_id = i}
           row == CHOOSE x \in rows : TRUE
       IN  Emit(r,
                IF rows = {}
                THEN Answer(q, Resp(404, "Application not found"))
                ELSE IF row.status = "accepted"
                THEN Answer(q, Resp(400, "Application already accepted"))
                ELSE IF row.status \notin {"submitted"}
                THEN Answer(q, Resp(400, "Cannot accept application."))
                ELSE Goto(q, "tx", row.status, row.worker_id))
    /\ UNCHANGED db

\* the transaction: accept the application, assign the worker, reject the
\* other pending applications
AcceptTx(r) ==
    /\ At(r, "acceptIssueApplication", "tx")
    /\ LET q == reqs[r]
           r1 == UpdateApplicationStatus(db, q.target, q.issue, "accepted",
                                         AdminFeedback, q.user)
           r2 == IF r1.err = OK THEN AssignWorker(r1.db, q.issue, q.num)
                 ELSE r1
           r3 == IF r2.err = OK
                 THEN RejectOtherApplications(r2.db, q.user, q.issue, q.target)
                 ELSE r2
       IN  IF r3.err # OK
           THEN /\ db' = db
                /\ Emit(r,
                       Answer(q, Resp(500, "Error accepting application")))
           ELSE /\ db' = r3.db
                /\ Emit(r,
                       IF r1.rowCount = 0
                       THEN Answer(q, Resp(404, "Application not found or already processed"))
                       ELSE Answer(q, RespN(200, "Application accepted successfully! Issue has been assigned to the worker.",
                                            r3.rowCount)))

(***************************************************************************)
(* rejectIssueApplication                                                  *)
(***************************************************************************)
\* a call without feedback, or with blanks only
RejectAppValidation(r, admin, feedback) ==
    /\ Free(r)
    /\ Not(feedback) \/ Len(Trim(feedback)) = 0
    /\ Emit(r,
            Answer(Arrive("rejectIssueApplication", NULL, admin, NULL, 0),
                   Resp(400, "Feedback is required when rejecting an application")))
    /\ UNCHANGED db

\* SELECT status FROM applications WHERE application_id = a AND issue_id = i
\* (the call has a feedback)
RejectAppCheck(r, i, a, admin) ==
    /\ Free(r)
    /\ LET q == Arrive("rejectIssueApplication", i, admin, a, 0)
           rows == {x \in db.apps : x.application_id = a /\ x.issue_id = i}
           row == CHOOSE x \in rows : TRUE
       IN  Emit(r,
                IF rows = {}
                THEN Answer(q, Resp(404, "Application not found"))
                ELSE IF row.status = "rejected"
                THEN Answer(q, Resp(400, "Application is already rejected"))
                ELSE IF row.status = "accepted"
                THEN Answer(q, Resp(400, "Cannot reject an accepted application"))
                ELSE IF row.status \notin {"submitted"}
                THEN Answer(q, Resp(400, "Cannot reject application."))
                ELSE Goto(q, "update", row.status, 0))
    /\ UNCHANGED db

\* UPDATE applications SET status = 'rejected', feedback, reviewed_by
RejectAppUpdate(r) ==
    /\ At(r, "rejectIssueApplication", "update")
    /\ LET q == reqs[r]
           r1 == UpdateApplicationStatus(db, q.target, q.issue, "rejected",
                                         AdminFeedback, q.user)
       IN  IF r1.err # OK
           THEN /\ db' = db
                /\ Emit(r,
                       Answer(q, Resp(500, "Error rejecting application")))
           ELSE /\ db' = r1.db
                /\ Emit(r,
                       IF r1.rowCount = 0
                       THEN Answer(q, Resp(404, "Application not found or already processed"))
                       ELSE Answer(q, Resp(200, "Application rejected successfully!")))

(***************************************************************************)
(* deleteApplication                                                       *)
(***************************************************************************)
\* SELECT application_id, status FROM applications
\*  WHERE issue_id = i AND worker_id = w
DeleteAppCheck(r, i, w) ==
    /\ Free(r)
    /\ LET q == Arrive("deleteApplication", i, w, NULL, 0)
           rows == {x \in db.apps : x.issue_id = i /\ x.worker_id = w}
           row == CHOOSE x \in rows : TRUE
       IN  Emit(r,
                IF rows = {}
                THEN Answer(q, Resp(404, "Application not found"))
                ELSE IF row.status # "rejected"
                THEN Answer(q, Resp(400, "Only rejected applications can be deleted."))
                ELSE Goto(q, "countOthers", row.status, 0))
    /\ UNCHANGED db

\* SELECT COUNT(...) as app_count FROM applications
\*  WHERE issue_id = i AND worker_id != w AND status != 'rejected'
DeleteCountOthers(r) ==
    /\ At(r, "deleteApplication", "countOthers")
    /\ LET q == reqs[r]
           app_count == PgCount(Cardinality(
               {x \in db.apps : /\ x.issue_id = q.issue
                                /\ x.worker_id # q.user
                                /\ x.status # "rejected"}))
           otherActiveApps == JsOr(app_count, JsNumber(0))
       IN  Emit(r,
                [q EXCEPT !.pc = "tx", !.cnt = otherActiveApps])
    /\ UNCHANGED db

\* the transaction: DELETE, and reopen the issue if otherActiveApps === 0
DeleteTx(r) ==
    /\ At(r, "deleteApplication", "tx")
    /\ LET q == reqs[r]
           r1 == DeleteRejectedApplication(db, q.issue, q.user)
           r2 == IF StrictEquals(q.cnt, JsNumber(0))
                 THEN ReopenIssue(r1.db, q.issue)
                 ELSE r1
       IN  /\ db' = r2.db
           /\ Emit(r,
                  IF r1.rowCount = 0
                  THEN Answer(q, Resp(400, "Application could not be deleted. It may have been already processed."))
                  ELSE IF StrictEquals(q.cnt, JsNumber(0)) /\ r2.rowCount > 0
                  THEN Answer(q, Resp(200, "Rejected application deleted successfully! Issue status updated to submitted as no other applications remain."))
                  ELSE Answer(q, Resp(200, "Rejected application deleted successfully!")))

(***************************************************************************)
(* updateIssueStatus and updateIssue                                       *)
(***************************************************************************)
\* a status of a request body: a text, JSON null, or no status field
SqlNull == "NULL"
Undefined == "undefined"
BodyStatuses == IssueStatuses \cup {"done", SqlNull, Undefined}
\* an issue id that no issue has
NoIssue == Cardinality(Issues) + 1

\* issues.status CHECK (status IN (...)): the column is nullable, and a
\* CHECK whose expression is NULL is satisfied
ChkIssueStatus(status) == status = SqlNull \/ status \in IssueStatuses

\* UPDATE issues SET status = status WHERE issue_id = i
UpdateIssuesStatus(d, i, status) ==
    IF i \notin Issues THEN [db |-> d, err |-> OK, rowCount |-> 0]
    ELSE IF ~ChkIssueStatus(status)
    THEN [db |-> d, err |-> CheckViolation, rowCount |-> 0]
    ELSE [db |-> [d EXCEPT !.issues[i].status = status], err |-> OK,
          rowCount |-> 1]

\* a request with a status in its body arrives: st is the status, num is
\* whether the body has another field
StatusRequest(r, op, i, u, status, other) ==
    /\ Free(r)
    /\ Emit(r, Goto(Arrive(op, i, u, NULL, 0), "handler", status, other))
    /\ UNCHANGED db

\* updateIssueStatus: the status is validated, then written
UpdateIssueStatus(r) ==
    /\ At(r, "updateIssueStatus", "handler")
    /\ LET q == reqs[r]
           status == q.st
           result == UpdateIssuesStatus(db, q.issue, status)
       IN  IF status \notin IssueStatuses
           THEN /\ db' = db
                /\ Emit(r, Answer(q, Resp(400, "Invalid status. Must be one of: submitted, applied, assigned, in_progress, under_review, resolved, closed")))
           ELSE /\ db' = result.db
                /\ Emit(r,
                       IF result.err # OK
                       THEN Answer(q, Resp(500, "Error updating issue status"))
                       ELSE IF result.rowCount = 0
                       THEN Answer(q, Resp(404, "Issue not found"))
                       ELSE Answer(q, Resp(200, "Issue status updated successfully!")))

\* updateIssue: the fields of the body are written as they are; the other
\* fields do not belong to the model's store
UpdateIssue(r) ==
    /\ At(r, "updateIssue", "handler")
    /\ LET q == reqs[r]
           status == q.st
           result == IF status # Undefined
                     THEN UpdateIssuesStatus(db, q.issue, status)
                     ELSE [db |-> db, err |-> OK,
                           rowCount |-> IF q.issue \in Issues THEN 1 ELSE 0]
       IN  IF status = Undefined /\ q.num = 0
           THEN /\ db' = db
                /\ Emit(r, Answer(q, Resp(400, "No fields provided to update")))
           ELSE /\ db' = result.db
                /\ Emit(r,
                       IF result.err # OK
                       THEN Answer(q, Resp(500, "Error updating issue"))
                       ELSE IF result.rowCount = 0
                       THEN Answer(q, Resp(404, "Issue not found"))
                       ELSE Answer(q, RespN(200, "Issue updated successfully!", result.rowCount)))

(***************************************************************************)
(* updateWorkProgress and updateProofProgress (start work)                 *)
(***************************************************************************)
\* SELECT status FROM issues WHERE issue_id = i AND assigned_worker_id = w
StartWorkCheck(r, i, w) ==
    /\ Free(r)
    /\ LET q == Arrive("updateWorkProgress", i, w, NULL, 0)
           currentStatus == db.issues[i].status
       IN  Emit(r,
                IF db.issues[i].assigned_worker_id # w
                THEN Answer(q, Resp(403, "Issue not found or you are not assigned to this issue."))
                ELSE IF currentStatus # "assigned"
                THEN Answer(q, Resp(400, "Cannot start work."))
                ELSE Goto(q, "update", currentStatus, 0))
    /\ UNCHANGED db

StartWorkUpdate(r) ==
    /\ At(r, "updateWorkProgress", "update")
    /\ LET q == reqs[r]
           r1 == StartWork(db, q.issue, q.user)
       IN  /\ db' = r1.db
           /\ Emit(r,
                  IF r1.rowCount = 0
                  THEN Answer(q, Resp(400, "Failed to start work. Issue may have been updated by another process."))
                  ELSE Answer(q, Resp(200, "Work started successfully! Issue status updated to in progress.")))

UpdateProofProgress(r, i, w) ==
    /\ Free(r)
    /\ LET q == Arrive("updateProofProgress", i, w, NULL, 0)
           r1 == StartWork(db, i, w)
       IN  /\ db' = r1.db
           /\ Emit(r,
                  IF r1.rowCount = 0
                  THEN Answer(q, Resp(400, "Cannot update progress. Issue may not be assigned to you or already in progress."))
                  ELSE Answer(q, Resp(200, "Issue marked as in progress successfully!")))

(***************************************************************************)
(* submitWorkProof                                                         *)
(***************************************************************************)
\* SELECT status FROM issues WHERE issue_id = i AND assigned_worker_id = w
SubmitWorkProofCheck(r, i, w) ==
    /\ Free(r)
    /\ LET q == Arrive("submitWorkProof", i, w, NULL, 0)
           currentStatus == db.issues[i].status
       IN  Emit(r,
                IF db.issues[i].assigned_worker_id # w
                THEN Answer(q, Resp(403, "Issue not found or you are not assigned to this issue."))
                ELSE IF currentStatus \notin {"assigned", "in_progress"}
                THEN Answer(q, Resp(400, "Cannot submit proof."))
                ELSE Goto(q, "tx", currentStatus, 0))
    /\ UNCHANGED db

\* the transaction: INSERT INTO issue_proofs, UPDATE issues
SubmitWorkProofTx(r) ==
    /\ At(r, "submitWorkProof", "tx")
    /\ LET q == reqs[r]
           r1 == InsertProof(db, q.issue, q.user)
           r2 == IF r1.err = OK
                 THEN SetIssueUnderReview(r1.db, q.issue, q.user)
                 ELSE r1
       IN  IF r2.err = OK
           THEN /\ db' = r2.db
                /\ Emit(r,
                       Answer(q, Resp(200, "Proof submitted successfully! Issue is now under review.")))
           ELSE /\ db' = db
                /\ Emit(r,
                       IF r2.err = UniqueViolation
                       THEN Answer(q, Resp(409, "Proof already submitted for this issue"))
                       ELSE Answer(q, Resp(500, "Error submitting proof")))

(***************************************************************************)
(* submitProof                                                             *)
(***************************************************************************)
\* SELECT assigned_worker_id, status FROM issues WHERE issue_id = i
SubmitProofIssueCheck(r, i, w) ==
    /\ Free(r)
    /\ LET q == Arrive("submitProof", i, w, NULL, 0)
           issue == db.issues[i]
       IN  Emit(r,
                IF issue.assigned_worker_id # w
                THEN Answer(q, Resp(403, "You are not assigned to this issue."))
                ELSE IF issue.status \notin {"assigned", "in_progress"}
                THEN Answer(q, Resp(400, "Cannot submit proof for an issue with status"))
                ELSE Goto(q, "existingProof", issue.status, 0))
    /\ UNCHANGED db

\* SELECT proof_id FROM issue_proofs WHERE issue_id = i
SubmitProofExisting(r) ==
    /\ At(r, "submitProof", "existingProof")
    /\ LET q == reqs[r]
       IN  Emit(r,
                IF \E x \in db.proofs : x.issue_id = q.issue
                THEN Answer(q, Resp(400, "Proof has already been submitted for this issue."))
                ELSE Goto(q, "insert", q.st, 0))
    /\ UNCHANGED db

\* INSERT INTO issue_proofs
SubmitProofInsert(r) ==
    /\ At(r, "submitProof", "insert")
    /\ LET q == reqs[r]
           r1 == InsertProof(db, q.issue, q.user)
       IN  IF r1.err = OK
           THEN /\ db' = r1.db
                /\ Emit(r,
                       Answer(q, Resp(201, "Proof submitted successfully! The issue is now under review.")))
           ELSE /\ db' = db
                /\ Emit(r,
                       Answer(q, Resp(500, "Failed to submit proof")))

\* an open transaction has inserted a payment of issue i, whose trigger has
\* updated the issue's row
IssueLocked(i) == \E r \in ReqIds : \E p \in reqs[r].tx : p.issue_id = i

(***************************************************************************)
(* approveProof and rejectProof                                            *)
(***************************************************************************)
\* SELECT verification_status FROM issue_proofs WHERE proof_id = p
VerifyProofCheck(r, op, p, admin) ==
    /\ Free(r)
    /\ LET q == Arrive(op, NULL, admin, p, 0)
           rows == {x \in db.proofs : x.proof_id = p}
           row == CHOOSE x \in rows : TRUE
       IN  Emit(r,
                IF rows = {}
                THEN Answer(q, Resp(404, "Proof not found"))
                ELSE IF row.verification_status # "pending"
                THEN Answer(q, Resp(400, IF op = "approveProof"
                                         THEN "Cannot approve a proof in"
                                         ELSE "Cannot reject a proof in"))
                ELSE Goto(q, "update", row.verification_status, 0))
    /\ UNCHANGED db

\* UPDATE issue_proofs SET verification_status = $1 WHERE proof_id = p
\* The trigger's UPDATE of the issue waits while an open transaction has
\* written the issue's row
VerifyProofUpdate(r, op, verdict) ==
    /\ At(r, op, "update")
    /\ \A p \in db.proofs :
           p.proof_id = reqs[r].target => ~IssueLocked(p.issue_id)
    /\ LET q == reqs[r]
           r1 == UpdateProofStatus(db, q.target, verdict, q.user)
       IN  IF r1.err # OK
           THEN /\ db' = db
                /\ Emit(r,
                       Answer(q, Resp(500, IF op = "approveProof"
                                           THEN "Failed to approve proof"
                                           ELSE "Failed to reject proof")))
           ELSE /\ db' = r1.db
                /\ Emit(r,
                       IF r1.rowCount = 0
                       THEN Answer(q, Resp(404, "Proof not found or already processed"))
                       ELSE Answer(q, Resp(200,
                                IF op = "approveProof"
                                THEN "Proof approved successfully"
                                ELSE "Proof rejected successfully with feedback")))

\* a rejectProof call without feedback, or with blanks only
RejectProofValidation(r, admin, feedback) ==
    /\ Free(r)
    /\ Not(feedback) \/ Not(Trim(feedback))
    /\ Emit(r,
            Answer(Arrive("rejectProof", NULL, admin, NULL, 0),
                   Resp(400, "Feedback is required when rejecting a proof")))
    /\ UNCHANGED db

ApproveProofCheck(r, p, admin) == VerifyProofCheck(r, "approveProof", p, admin)
ApproveProofUpdate(r) == VerifyProofUpdate(r, "approveProof", "approved")
RejectProofCheck(r, p, admin) == VerifyProofCheck(r, "rejectProof", p, admin)
RejectProofUpdate(r) == VerifyProofUpdate(r, "rejectProof", "rejected")

(***************************************************************************)
(* createPayments: BEGIN, one INSERT per item, COMMIT.  The items of the   *)
(* request body are drawn when the loop reaches them; its length is known  *)
(* from the start.                                                         *)
(***************************************************************************)
MissingFields(item) ==
    item.issueId = NULL \/ item.workerId = NULL \/ item.citizenId = NULL
        \/ item.amount = 0

\* a ROLLBACK that keeps the rows of the transaction
RollbackKeepsRows(d, tx) ==
    TxView(d, tx)

\* ROLLBACK: the rows the transaction has inserted are dropped
Rollback(d, tx) == d

\* the payments.length test, getConnection and BEGIN
CreatePaymentsBegin(r, admin, length) ==
    /\ Free(r)
    /\ LET q == Arrive("createPayments", NULL, admin, NULL, length)
       IN  Emit(r,
                IF length = 0
                THEN Answer(q, Resp(400, "No payments provided"))
                ELSE Goto(q, "item", "null", 0))
    /\ UNCHANGED db

\* one turn of the loop.  The INSERT waits while another transaction that
\* has inserted a payment of the same issue has not ended.  A refused call
\* answers after its ROLLBACK; num is the count of the items it had inserted
CreatePaymentsItem(r, item) ==
    /\ At(r, "createPayments", "item")
    /\ reqs[r].num < reqs[r].amt
    /\ MissingFields(item)
           \/ \A r2 \in ReqIds \ {r} :
                  \A p \in reqs[r2].tx : p.issue_id # item.issueId
    /\ LET q == reqs[r]
           r1 == InsertPayment(TxView(db, q.tx), item)
       IN  IF MissingFields(item)
           THEN /\ db' = Rollback(db, q.tx)
                /\ Emit(r,
                       [Answer(q, Resp(400, "Missing fields in payment item"))
                           EXCEPT !.num = q.num])
           ELSE IF r1.err # OK
           THEN /\ db' = Rollback(db, q.tx)
                /\ Emit(r,
                       [Answer(q, Resp(500, "Failed to process payments"))
                           EXCEPT !.num = q.num])
           ELSE /\ db' = db
                /\ Emit(r,
                       [q EXCEPT !.num = @ + 1,
                                 !.tx = r1.db.payments \ db.payments])

\* two calls wait for each other: r's next item is of an issue whose payment
\* the open transaction of r2 has inserted, and r2's next item is of an issue
\* whose payment r has inserted.  The store ends the deadlock with an error
\* in r, which rolls back
CreatePaymentsDeadlock(r, item, item2) ==
    /\ At(r, "createPayments", "item")
    /\ reqs[r].num < reqs[r].amt
    /\ ~MissingFields(item) /\ ~MissingFields(item2)
    /\ \E r2 \in ReqIds \ {r} :
           /\ At(r2, "createPayments", "item")
           /\ reqs[r2].num < reqs[r2].amt
           /\ \E p \in reqs[r2].tx : p.issue_id = item.issueId
           /\ \E p \in reqs[r].tx : p.issue_id = item2.issueId
    /\ db' = Rollback(db, reqs[r].tx)
    /\ Emit(r,
            [Answer(reqs[r], Resp(500, "Failed to process payments"))
                EXCEPT !.num = reqs[r].num])

\* COMMIT after the last item
CreatePaymentsCommit(r) ==
    /\ At(r, "createPayments", "item")
    /\ reqs[r].num = reqs[r].amt
    /\ LET q == reqs[r]
       IN  /\ db' = TxView(db, q.tx)
           /\ Emit(r,
                  Answer(q, RespN(201, "Payments processed successfully", q.amt)))

(***************************************************************************)
(* The pooled connection of a transaction: executeMultipleQueries,         *)
(* createPayments and createIssue as the sequence of their awaits.  Of the   *)
(* statements only the outcome counts here.  db.checkedOut is the number of  *)
(* the pool's clients that are checked out.  In a call's slot target is 1    *)
(* while the call holds a client, st is the state of its transaction, amt    *)
(* the statements of its body that are left, num the COMMIT and ROLLBACK     *)
(* statements it has run, resp the answer it will give.  BEGIN, COMMIT and   *)
(* ROLLBACK do not fail on a connection that is alive.                       *)
(***************************************************************************)
\* max: 10 of the pool, for the few requests that are in flight here
PoolMax == 1
PoolOps == {"executeMultipleQueries", "createPayments", "createIssue"}

\* client.release() without its effect on the pool
ReleaseKeepsClient(d) ==
    d

\* what a call answers from its catch block; executeMultipleQueries returns
\* success: false to its caller
PoolFailure(op) ==
    IF op = "createIssue" THEN Resp(500, "Internal server error occurred")
    ELSE IF op = "createPayments" THEN Resp(500, "Failed to process payments")
    ELSE Resp(500, "success: false")

\* pool.connect() and client.release()
CheckOut(d) == [d EXCEPT !.checkedOut = @ + 1]
Release(d) == [d EXCEPT !.checkedOut = @ - 1]

\* the call leaves: its answer is out, with the locals it ended with
Leave(r, q) ==
    /\ reqs' = [reqs EXCEPT ![r] = Idle]
    /\ out' = [q EXCEPT !.pc = "done"]

\* what runs before the connection is asked for: createIssue returns 400
\* on a missing field, createPayments on an empty list; then pool.connect()
\* gives a client, or gives up after connectionTimeoutMillis when all
\* clients are checked out: the catch block then finds no client
\* (executeMultipleQueries connects outside its try: its caller gets the
\* error)
PoolConnect(r, op, valid, length) ==
    /\ Free(r)
    /\ op = "createIssue" => length = 2
    /\ op = "createPayments" /\ ~valid => length = 0
    /\ LET q == Arrive(op, NULL, NULL, NULL, length)
       IN  IF op # "executeMultipleQueries" /\ (~valid \/ length = 0)
           THEN /\ db' = db
                /\ Leave(r, [q EXCEPT !.resp =
                                 Resp(400, IF op = "createIssue"
                                           THEN "Missing required fields"
                                           ELSE "No payments provided")])
           ELSE IF db.checkedOut >= PoolMax
           THEN /\ db' = db
                /\ Leave(r, [q EXCEPT !.resp = PoolFailure(op)])
           ELSE /\ db' = CheckOut(db)
                /\ reqs' = [reqs EXCEPT ![r] =
                               [q EXCEPT !.pc = "begin", !.target = 1]]
                /\ out' = Idle

\* client.query('BEGIN')
PoolBegin(r) ==
    /\ reqs[r].op \in PoolOps /\ reqs[r].pc = "begin"
    /\ reqs' = [reqs EXCEPT ![r] = [@ EXCEPT !.pc = "body", !.st = "open"]]
    /\ out' = Idle
    /\ UNCHANGED db

\* one statement of the body: it succeeds, or it fails and the catch block
\* is next.  Before its INSERT createPayments tests the item: on a missing
\* field it runs ROLLBACK and returns 400 (the finally block is next)
PoolStatement(r, outcome) ==
    /\ reqs[r].op \in PoolOps /\ reqs[r].pc = "body"
    /\ reqs[r].amt > 0
    /\ outcome = "missing" => reqs[r].op = "createPayments"
    /\ reqs' = [reqs EXCEPT ![r] =
                   IF outcome = "ok" THEN [@ EXCEPT !.amt = @ - 1]
                   ELSE IF outcome = "error" THEN [@ EXCEPT !.pc = "catch"]
                   ELSE [@ EXCEPT !.pc = "finally", !.st = "rolledback",
                                  !.num = @ + 1,
                                  !.resp = Resp(400, "Missing fields in payment item")]]
    /\ out' = Idle
    /\ UNCHANGED db

\* client.query('COMMIT') after the last statement, and the answer that
\* follows it
PoolCommit(r) ==
    /\ reqs[r].op \in PoolOps /\ reqs[r].pc = "body"
    /\ reqs[r].amt = 0
    /\ reqs' = [reqs EXCEPT ![r] =
                   [@ EXCEPT !.pc = "finally", !.st = "committed",
                             !.num = @ + 1,
                             !.resp = Resp(IF reqs[r].op = "executeMultipleQueries"
                                           THEN 200 ELSE 201, "success")]]
    /\ out' = Idle
    /\ UNCHANGED db

\* the catch block: client.query('ROLLBACK'), and the failure as the answer
PoolCatch(r) ==
    /\ reqs[r].op \in PoolOps /\ reqs[r].pc = "catch"
    /\ reqs' = [reqs EXCEPT ![r] =
                   [@ EXCEPT !.pc = "finally", !.st = "rolledback",
                             !.num = @ + 1,
                             !.resp = PoolFailure(reqs[r].op)]]
    /\ out' = Idle
    /\ UNCHANGED db

\* the finally block: client.release(); then the call has ended
PoolFinally(r) ==
    /\ reqs[r].op \in PoolOps /\ reqs[r].pc = "finally"
    /\ db' = Release(db)
    /\ Leave(r, [reqs[r] EXCEPT !.target = NULL])

(***************************************************************************)
(* createWithdrawal                                                        *)
(***************************************************************************)
\* the methods createWithdrawal knows; a request's method: one of them or
\* another
Methods == {"bkash", "nagad", "rocket", "sonali_bank"}
AnyMethods == {"bkash", "cash"}

\* the validation of the request body; "ok" when it passes
WithdrawalInvalid(method, accountNumber, amt) ==
    IF method \notin Methods THEN "Invalid method"
    ELSE IF Not(accountNumber) \/ amt = 0 \/ amt <= 0
    THEN "Invalid withdrawal request"
    ELSE "ok"

\* a call whose body does not pass the validation
WithdrawalValidation(r, w, method, accountNumber, amt) ==
    /\ Free(r)
    /\ WithdrawalInvalid(method, accountNumber, amt) # "ok"
    /\ Emit(r,
            Answer(Arrive("createWithdrawal", NULL, w, NULL, 0),
                   Resp(400, WithdrawalInvalid(method, accountNumber, amt))))
    /\ UNCHANGED db

\* SELECT ... AS total_earnings FROM payments WHERE worker_id = w
WithdrawalTotals(r, w, amt) ==
    /\ Free(r)
    /\ Cardinality(db.withdrawals) + Cardinality(InFlight("createWithdrawal"))
           < MaxWithdrawals
    /\ LET q == Arrive("createWithdrawal", NULL, w, NULL, amt)
       IN  Emit(r,
                Goto(q, "withdrawn", "null", TotalEarnings(db, w)))
    /\ UNCHANGED db

\* SELECT ... AS withdrawn FROM withdrawals WHERE worker_id = w
WithdrawalWithdrawn(r) ==
    /\ At(r, "createWithdrawal", "withdrawn")
    /\ LET q == reqs[r]
           totalEarnings == q.num
           withdrawn == Withdrawn(db, q.user)
           available == Available(totalEarnings, withdrawn)
       IN  Emit(r,
                IF q.amt > available
                THEN Answer(q, Resp(400, "Insufficient balance"))
                ELSE Goto(q, "insert", q.st, 0))
    /\ UNCHANGED db

\* the read of the completed payments fails at the store: executeQuery
\* answers success: false, and totalEarnings is 0 (st keeps that a read of
\* the request has failed)
WithdrawalTotalsFails(r, w, amt) ==
    /\ Free(r)
    /\ Cardinality(db.withdrawals) + Cardinality(InFlight("createWithdrawal"))
           < MaxWithdrawals
    /\ LET q == Arrive("createWithdrawal", NULL, w, NULL, amt)
       IN  Emit(r, Goto(q, "withdrawn", "failed", 0))
    /\ UNCHANGED db

\* the read of the withdrawals fails at the store: withdrawn is 0
WithdrawalWithdrawnFails(r) ==
    /\ At(r, "createWithdrawal", "withdrawn")
    /\ LET q == reqs[r]
           totalEarnings == q.num
           withdrawn == 0
           available == Available(totalEarnings, withdrawn)
       IN  Emit(r,
                IF q.amt > available
                THEN Answer(q, Resp(400, "Insufficient balance"))
                ELSE Goto(q, "insert", "failed", 0))
    /\ UNCHANGED db

\* INSERT INTO withdrawals
WithdrawalInsert(r) ==
    /\ At(r, "createWithdrawal", "insert")
    /\ LET q == reqs[r]
           r1 == InsertWithdrawal(db, q.user, q.amt)
       IN  IF r1.err = OK
           THEN /\ db' = r1.db
                /\ Emit(r,
                       Answer(q, Resp(201, "Withdrawal request submitted")))
           ELSE /\ db' = db
                /\ Emit(r,
                       Answer(q, Resp(500, "Failed to create withdrawal")))

AppIds == 1..MaxAppId

ProofIds == 1..Cardinality(Issues)

PaymentItems ==
    [issueId : Issues, workerId : Workers, citizenId : Citizens,
     amount : 0..MaxAmount]

ApplicationStep(r) ==
    \/ \E i \in Issues, w \in Workers : ApplyIssueCheck(r, i, w)
    \/ ApplyExistingApp(r)
    \/ ApplyInsert(r)
    \/ ApplyCommit(r)
    \/ \E i \in Issues, a \in AppIds, admin \in Admins :
           AcceptAppCheck(r, i, a, admin)
    \/ AcceptTx(r)
    \/ \E i \in Issues, a \in AppIds, admin \in Admins :
           RejectAppCheck(r, i, a, admin)
    \/ RejectAppUpdate(r)
    \/ \E i \in Issues, w \in Workers : DeleteAppCheck(r, i, w)
    \/ DeleteCountOthers(r)
    \/ DeleteTx(r)

ProofStep(r) ==
    \/ \E i \in Issues, w \in Workers : StartWorkCheck(r, i, w)
    \/ StartWorkUpdate(r)
    \/ \E i \in Issues, w \in Workers : UpdateProofProgress(r, i, w)
    \/ \E i \in Issues, w \in Workers : SubmitWorkProofCheck(r, i, w)
    \/ SubmitWorkProofTx(r)
    \/ \E i \in Issues, w \in Workers : SubmitProofIssueCheck(r, i, w)
    \/ SubmitProofExisting(r)
    \/ SubmitProofInsert(r)
    \/ \E p \in ProofIds, admin \in Admins : ApproveProofCheck(r, p, admin)
    \/ ApproveProofUpdate(r)
    \/ \E p \in ProofIds, admin \in Admins : RejectProofCheck(r, p, admin)
    \/ RejectProofUpdate(r)

LedgerStep(r) ==
    \/ \E admin \in Admins, length \in 0..MaxBatch :
           CreatePaymentsBegin(r, admin, length)
    \/ \E item \in PaymentItems : CreatePaymentsItem(r, item)
    \/ CreatePaymentsCommit(r)
    \/ \E w \in Workers, amt \in Amounts : WithdrawalTotals(r, w, amt)
    \/ WithdrawalWithdrawn(r)
    \/ WithdrawalInsert(r)

\* the admin's decision on the applications, and the work of the workers
EvidenceStep(r) ==
    \/ \E i \in Issues, a \in 1..(Cardinality(Issues) * NumWorkers),
          admin \in Admins :
           AcceptAppCheck(r, i, a, admin)
    \/ AcceptTx(r)
    \/ ProofStep(r)

\* the approval of the proofs, and the ledger
SettlementStep(r) ==
    \/ \E p \in ProofIds, admin \in Admins : ApproveProofCheck(r, p, admin)
    \/ ApproveProofUpdate(r)
    \/ LedgerStep(r)

\* the requests the handlers refuse for their input, and the payment calls
ValidationStep(r) ==
    \/ \E w \in Workers, estimated_cost \in -1..1,
          estimated_time \in Texts, proposal_description \in Texts :
           ApplyValidation(r, w, estimated_cost, estimated_time,
                           proposal_description)
    \/ \E admin \in Admins, feedback \in Texts :
           RejectAppValidation(r, admin, feedback)
    \/ \E admin \in Admins, feedback \in Texts :
           RejectProofValidation(r, admin, feedback)
    \/ \E w \in Workers, method \in AnyMethods, accountNumber \in Texts,
          amt \in -1..1 :
           WithdrawalValidation(r, w, method, accountNumber, amt)
    \/ \E admin \in Admins, length \in 0..MaxBatch :
           CreatePaymentsBegin(r, admin, length)
    \/ \E item \in PaymentItems : CreatePaymentsItem(r, item)
    \/ CreatePaymentsCommit(r)

\* the ledger, with reads of createWithdrawal that fail at the store
StoreFailureStep(r) ==
    \/ LedgerStep(r)
    \/ \E w \in Workers, amt \in Amounts : WithdrawalTotalsFails(r, w, amt)
    \/ WithdrawalWithdrawnFails(r)

\* the bodies of updateIssue: a status, or no status with or without another
\* field (another field next to a status changes nothing in the handler)
IssueBodies ==
    [status : BodyStatuses \ {Undefined}, other : {0}]
        \cup [status : {Undefined}, other : 0..1]

\* the status endpoints, and the start of the work
StatusStep(r) ==
    \/ \E i \in Issues \cup {NoIssue}, admin \in Admins,
          status \in BodyStatuses \ {Undefined} :
           StatusRequest(r, "updateIssueStatus", i, admin, status, 0)
    \/ UpdateIssueStatus(r)
    \/ \E i \in Issues \cup {NoIssue}, admin \in Admins,
          body \in IssueBodies :
           StatusRequest(r, "updateIssue", i, admin, body.status, body.other)
    \/ UpdateIssue(r)
    \/ \E i \in Issues, w \in Workers : StartWorkCheck(r, i, w)
    \/ StartWorkUpdate(r)

\* the items of the batches: of either issue, with an amount that is
\* negative, missing or positive
BatchItems ==
    [issueId : BatchIssues, workerId : {1}, citizenId : Citizens,
     amount : -1..1]

\* the payment calls on two issues
BatchStep(r) ==
    \/ \E admin \in Admins, length \in 0..MaxBatch :
           CreatePaymentsBegin(r, admin, length)
    \/ \E item \in BatchItems : CreatePaymentsItem(r, item)
    \/ \E item \in BatchItems, item2 \in BatchItems :
           CreatePaymentsDeadlock(r, item, item2)
    \/ CreatePaymentsCommit(r)

\* one caller of each role: a worker, the admin, the citizen
Callers == {1, AdminId, CitizenId}

\* the handlers that write applications and proofs, called by users of any
\* role
RoleStep(r) ==
    \/ \E i \in Issues, u \in Callers : ApplyIssueCheck(r, i, u)
    \/ ApplyExistingApp(r)
    \/ ApplyInsert(r)
    \/ ApplyCommit(r)
    \/ \E i \in Issues, a \in AppIds, u \in Callers :
           AcceptAppCheck(r, i, a, u)
    \/ AcceptTx(r)
    \/ \E i \in Issues, a \in AppIds, u \in Callers :
           RejectAppCheck(r, i, a, u)
    \/ RejectAppUpdate(r)
    \/ \E i \in Issues, u \in Callers : SubmitWorkProofCheck(r, i, u)
    \/ SubmitWorkProofTx(r)
    \/ \E i \in Issues, u \in Callers : SubmitProofIssueCheck(r, i, u)
    \/ SubmitProofExisting(r)
    \/ SubmitProofInsert(r)
    \/ \E p \in ProofIds, u \in Callers : ApproveProofCheck(r, p, u)
    \/ ApproveProofUpdate(r)
    \/ \E p \in ProofIds, u \in Callers : RejectProofCheck(r, p, u)
    \/ RejectProofUpdate(r)

\* the transactions on pooled connections
PoolStep(r) ==
    \/ \E op \in PoolOps, valid \in BOOLEAN, length \in 0..MaxBatch :
           PoolConnect(r, op, valid, length)
    \/ PoolBegin(r)
    \/ \E outcome \in {"ok", "error", "missing"} : PoolStatement(r, outcome)
    \/ PoolCommit(r)
    \/ PoolCatch(r)
    \/ PoolFinally(r)

NextApp == \E r \in ReqIds : ApplicationStep(r)
NextPool == \E r \in ReqIds : PoolStep(r)
NextRole == \E r \in ReqIds : RoleStep(r)
NextBatch == \E r \in ReqIds : BatchStep(r)
NextStatus == \E r \in ReqIds : StatusStep(r)
NextStoreFailure == \E r \in ReqIds : StoreFailureStep(r)
NextValidation == \E r \in ReqIds : ValidationStep(r)
NextSettlement == \E r \in ReqIds : SettlementStep(r)
NextEvidence == \E r \in ReqIds : EvidenceStep(r)
NextProof == \E r \in ReqIds : ProofStep(r)
NextLedger == \E r \in ReqIds : LedgerStep(r)

\* the application workflow on fresh issues
SpecApp == Init /\ [][NextApp]_vars
\* the proof workflow on assigned issues
SpecProof == InitAssigned /\ [][NextProof]_vars
\* accepts and the proof workflow on issues every worker has applied for
SpecEvidence == InitApplied /\ [][NextEvidence]_vars
\* the approvals and the ledger on issues under review
SpecSettlement == InitUnderReview /\ [][NextSettlement]_vars
\* the ledger, on fresh issues and on resolved ones
SpecLedger == InitLedger /\ [][NextLedger]_vars
\* the status endpoints and the start of the work on assigned issues
SpecStatus == InitAssigned /\ [][NextStatus]_vars
\* the application and proof handlers with callers of any role
SpecRole == Init /\ [][NextRole]_vars
\* the transactions on pooled connections
SpecPool == Init /\ [][NextPool]_vars
\* the payment batches on two resolved issues
SpecBatch == InitBatch /\ [][NextBatch]_vars
\* the ledger with failing reads, on fresh issues and on resolved ones
SpecStoreFailure == InitLedger /\ [][NextStoreFailure]_vars
\* the refused requests and the payment calls, on fresh and resolved issues
SpecValidation == InitLedger /\ [][NextValidation]_vars

(***************************************************************************)
(* Properties.                                                             *)
(***************************************************************************)
SubmitOps == {"submitWorkProof", "submitProof"}
\* the answer given in the last step is a success of handler op
Succeeded(op) == out.op = op /\ out.resp.code \in {200, 201}
\* slot r answers in this step, from position pc of handler op
Answers(r, op, pc) == At(r, op, pc) /\ out'.pc = "done" /\ reqs'[r] = Idle
AppRows(d, i, st) == {a \in d.apps : a.issue_id = i /\ a.status = st}
ProofRows(d, i) == {x \in d.proofs : x.issue_id = i}

\* C1: every issue has at most one application with status 'accepted', also
\* when two admins accept two different submitted applications of the issue
\* at the same time.
C1_AtMostOneAccepted ==
    \A i \in Issues : Cardinality(AppRows(db, i, "accepted")) <= 1

LegalEdges ==
    {<<"submitted", "applied">>, <<"applied", "assigned">>,
     <<"assigned", "in_progress">>, <<"assigned", "under_review">>,
     <<"in_progress", "under_review">>, <<"under_review", "resolved">>,
     <<"under_review", "in_progress">>, <<"resolved", "closed">>,
     <<"applied", "submitted">>}

\* C2: every change of an issue's status is an edge of the lifecycle
\* (submitted->applied->assigned->in_progress->under_review->resolved->closed,
\* assigned->under_review, under_review->in_progress, applied->submitted).
C2_OnlyLegalEdges ==
    [][\A i \in Issues :
          db'.issues[i].status # db.issues[i].status
              => <<db.issues[i].status, db'.issues[i].status>> \in LegalEdges]_vars

\* C3: of two concurrent withdrawal requests of one worker that each fit the
\* balance and jointly exceed it, the second to reach its insert is refused
\* with 'Insufficient balance' and inserts nothing.
C3_OneOfTwoWithdrawalsRefused ==
    [][\A r \in ReqIds :
          LET q == reqs[r]
          IN  (/\ Answers(r, "createWithdrawal", "insert")
               /\ q.amt <= TotalEarnings(db, q.user)
               /\ q.amt + Withdrawn(db, q.user) > TotalEarnings(db, q.user))
                  => /\ out'.resp = Resp(400, "Insufficient balance")
                     /\ db'.withdrawals = db.withdrawals]_vars

\* C4: for every worker, the processing and successful withdrawals never
\* exceed the completed payments.
C4_BalanceNeverNegative ==
    \A w \in Workers : Withdrawn(db, w) <= TotalEarnings(db, w)

\* C5: a payment row is inserted only for an issue that is 'resolved' and
\* whose proof is 'approved'; for any other issue createPayments inserts
\* nothing and does not close the issue.
C5_PaymentNeedsResolvedIssue ==
    [][\A p \in db'.payments \ db.payments :
          /\ db.issues[p.issue_id].status = "resolved"
          /\ \E x \in ProofRows(db, p.issue_id) :
                 x.verification_status = "approved"]_vars

\* C6: when acceptIssueApplication answers with success, no other
\* application of the issue is 'submitted', and none is for as long as the
\* issue has an 'accepted' application, whatever the requests in flight do.
C6_NoSubmittedRivalAfterAccept ==
    /\ Succeeded("acceptIssueApplication")
           => \A a \in AppsOf(db, out.issue) :
                  a.application_id # out.target => a.status # "submitted"
    /\ \A i \in Issues :
           AppRows(db, i, "accepted") # {}
               => AppRows(db, i, "submitted") = {}

\* an apply whose transaction commits on the status its check has read
C7_ApplyStep(r) ==
    LET q == reqs[r]
    IN  (/\ Answers(r, "applyForIssue", "commit")
         /\ q.st = db.issues[q.issue].status
         /\ \A a \in db.apps : a.issue_id = q.issue => a.worker_id # q.user)
            => /\ out'.resp.code = 201
               /\ db'.issues[q.issue].status = "applied"
               /\ \E a \in AppRows(db', q.issue, "submitted") :
                      a.worker_id = q.user
               /\ db.apps \subseteq db'.apps

\* an accept whose transaction runs on the application its check has read,
\* on an issue that is 'applied'
C7_AcceptStep(r) ==
    LET q == reqs[r]
    IN  (/\ Answers(r, "acceptIssueApplication", "tx")
         /\ db.issues[q.issue].status = "applied"
         /\ \E a \in AppRows(db, q.issue, "submitted") :
                a.application_id = q.target)
            => /\ out'.resp.code = 200
               /\ db'.issues[q.issue].status = "assigned"
               /\ db'.issues[q.issue].assigned_worker_id = q.num
               /\ \E a \in AppRows(db', q.issue, "accepted") :
                      a.application_id = q.target /\ a.worker_id = q.num
               /\ \A a \in AppRows(db, q.issue, "submitted") :
                      a.application_id # q.target
                          => \E b \in AppRows(db', q.issue, "rejected") :
                                 b.application_id = a.application_id

\* C7 (scenario A, each call run to its end before the next): an apply on
\* an open issue leaves the issue 'applied' and adds a 'submitted'
\* application; accepting one of the submitted applications leaves the
\* issue 'assigned' to its worker, the application 'accepted' and every
\* other submitted application 'rejected'.
C7_ScenarioA ==
    [][\A r \in ReqIds : C7_ApplyStep(r) /\ C7_AcceptStep(r)]_vars

\* F1 and F2 have applied, F1's application has just been accepted
C7_Witness ==
    \E i \in Issues, f1, f2 \in Workers :
        /\ f1 # f2
        /\ Succeeded("acceptIssueApplication")
        /\ out.issue = i
        /\ db.issues[i].status = "assigned"
        /\ db.issues[i].assigned_worker_id = f1
        /\ \E a \in AppRows(db, i, "accepted") :
               a.worker_id = f1 /\ a.application_id = out.target
        /\ \E a \in AppRows(db, i, "rejected") : a.worker_id = f2

\* C8: every application that an accept moves from 'submitted' to
\* 'rejected' carries the standard feedback text afterwards.
C8_CascadeSetsStandardFeedback ==
    [][\A r \in ReqIds :
          Answers(r, "acceptIssueApplication", "tx")
              => \A a \in AppRows(db, reqs[r].issue, "submitted") :
                     \A b \in AppRows(db', reqs[r].issue, "rejected") :
                         b.application_id = a.application_id
                             => b.feedback = StdFeedback]_vars

\* C9: every issue has at most one row in issue_proofs.
C9_AtMostOneProof ==
    \A i \in Issues : Cardinality(ProofRows(db, i)) <= 1

\* a submission has been refused as a duplicate after the proof of the
\* issue was rejected
C9_Witness ==
    /\ out.op \in SubmitOps
    /\ out.resp.code = 409
    /\ \E x \in ProofRows(db, out.issue) :
           x.verification_status = "rejected"

AlreadySubmitted ==
    {Resp(409, "Proof already submitted for this issue"),
     Resp(400, "Proof has already been submitted for this issue.")}

\* C10: a submission whose insert meets an existing proof of the issue (the
\* other of two concurrent submissions has won) inserts nothing and is
\* answered with the AlreadySubmitted conflict, never with a generic failure.
C10_LoserGetsAlreadySubmitted ==
    [][\A r \in ReqIds :
          (/\ reqs[r].op \in SubmitOps
           /\ reqs[r].pc \in {"tx", "insert"}
           /\ out'.pc = "done" /\ reqs'[r] = Idle
           /\ ProofRows(db, reqs[r].issue) # {})
              => /\ db'.proofs = db.proofs
                 /\ out'.resp \in AlreadySubmitted]_vars

PaymentRows(d, i) == {p \in d.payments : p.issue_id = i}

\* the transactions in flight that have inserted a payment of issue i
PayingNow(i) == {r \in ReqIds : \E p \in reqs[r].tx : p.issue_id = i}

\* at most one row of each issue, counting the rows of open transactions
C11_OneRow ==
    \A i \in Issues :
        Cardinality(PaymentRows(db, i)) + Cardinality(PayingNow(i)) <= 1

\* a createPayments call that does not answer with success writes nothing,
\* and one that commits adds payments of unpaid issues only
C11_CallStep(r) ==
    At(r, "createPayments", "item") /\ reqs'[r] # reqs[r]
        => /\ db.payments \subseteq db'.payments
           /\ \A p \in db'.payments \ db.payments :
                  PaymentRows(db, p.issue_id) = {}
           /\ out'.resp.code # 201 => db' = db

\* C11: an issue never has more than one payment row, committed or about to
\* be: a createPayments call that reaches an issue already paid answers with
\* a failure and leaves the store as it was (the payment, the issue status
\* and every balance), and of the calls that pay one issue at the same time
\* only one can commit.
C11_OnePaymentPerIssue ==
    /\ []C11_OneRow
    /\ [][\A r \in ReqIds : C11_CallStep(r)]_vars

C11_Witness ==
    /\ out.op = "createPayments" /\ out.resp.code = 500
    /\ \E i \in Issues : /\ Cardinality(PaymentRows(db, i)) = 1
                         /\ db.issues[i].status = "closed"
                         /\ PayingNow(i) = {}

\* the application a decision request is about, as the store has it now
TargetRows(d, q) ==
    {a \in d.apps :
        a.application_id = q.target /\ a.issue_id = q.issue}

\* the write of an accept or of a reject
DecisionWrite(r) ==
    \/ At(r, "acceptIssueApplication", "tx")
    \/ At(r, "rejectIssueApplication", "update")

\* C12: the write of acceptIssueApplication or rejectIssueApplication on an
\* application that is no longer 'submitted' when the write runs answers
\* with a failure and changes no application and no issue, also when the
\* status changed between the call's pre-check and its write.
C12_DecidedApplicationIsKept ==
    [][\A r \in ReqIds :
           /\ DecisionWrite(r)
           /\ \E a \in TargetRows(db, reqs[r]) : a.status # "submitted"
           => /\ db' = db
              /\ out'.resp.code # 200]_vars

\* the write of an approveProof or of a rejectProof
VerdictWrite(r) ==
    At(r, "approveProof", "update") \/ At(r, "rejectProof", "update")

\* C13: the write of approveProof or rejectProof on evidence that is no
\* longer 'pending' when the write runs answers with a failure and changes
\* neither the evidence nor the issue, so that of an approve and a reject
\* running together on one pending evidence only one takes effect.
C13_VerdictIsWrittenOnce ==
    [][\A r \in ReqIds :
           /\ VerdictWrite(r)
           /\ \E p \in db.proofs : /\ p.proof_id = reqs[r].target
                                   /\ p.verification_status # "pending"
           => /\ db' = db
              /\ out'.resp.code # 200]_vars

TransactionOps ==
    {"acceptIssueApplication", "deleteApplication", "applyForIssue",
     "submitWorkProof", "createPayments"}

\* C14: when a call of acceptIssueApplication, deleteApplication,
\* applyForIssue, submitWorkProof or createPayments answers with anything
\* but success, the store is as it was before the step that answered: its
\* transaction has committed nothing.
C14_FailureCommitsNothing ==
    [][out'.op \in TransactionOps /\ out'.resp.code \notin {200, 201}
           => db' = db]_vars

\* C15: in every committed state, an issue that has an 'accepted'
\* application is assigned to the worker of that application and its status
\* is neither 'submitted' nor 'applied'.
C15_AcceptedMeansAssigned ==
    \A a \in db.apps :
        a.status = "accepted"
            => /\ db.issues[a.issue_id].assigned_worker_id = a.worker_id
               /\ db.issues[a.issue_id].status \notin {"submitted", "applied"}

\* a delete that commits on a 'rejected' application of the caller while the
\* issue is 'applied' and has no other application that is not 'rejected'
C16_LastApplicationDeleted(r) ==
    /\ At(r, "deleteApplication", "tx")
    /\ db.issues[reqs[r].issue].status = "applied"
    /\ \E a \in AppsOf(db, reqs[r].issue) :
           a.worker_id = reqs[r].user /\ a.status = "rejected"
    /\ \A a \in AppsOf(db, reqs[r].issue) :
           a.worker_id # reqs[r].user => a.status = "rejected"
    /\ reqs'[r] = Idle

\* C16: when a worker deletes their 'rejected' application of an 'applied'
\* issue that has no other application with a status other than 'rejected',
\* the application is removed and the issue becomes 'submitted'.
C16_DeleteReopensIssue ==
    [][\A r \in ReqIds :
           C16_LastApplicationDeleted(r)
               => /\ \A a \in AppsOf(db', reqs[r].issue) :
                         a.worker_id # reqs[r].user
                  /\ db'.issues[reqs[r].issue].status = "submitted"]_vars

ActiveRows(d, i) ==
    {a \in AppsOf(d, i) : a.status \in {"submitted", "accepted"}}

\* a delete whose transaction runs while the issue has a 'submitted' or
\* 'accepted' application leaves the issue status as it is
C17_DeleteStep(r) ==
    Answers(r, "deleteApplication", "tx") /\ ActiveRows(db, reqs[r].issue) # {}
        => db'.issues[reqs[r].issue].status = db.issues[reqs[r].issue].status

\* an issue open for applications has no application waiting or accepted
C17_SubmittedIssueHasNoActiveRow ==
    \A i \in Issues :
        db.issues[i].status = "submitted" => ActiveRows(db, i) = {}

\* C17: deleteApplication leaves the issue status unchanged whenever the
\* issue has another 'submitted' or 'accepted' application when the delete
\* commits, so an issue with status 'submitted' never has a 'submitted' or
\* 'accepted' application, also when another worker applies between the
\* delete's count and its transaction.
C17_DeleteKeepsActiveIssue ==
    /\ []C17_SubmittedIssueHasNoActiveRow
    /\ [][\A r \in ReqIds : C17_DeleteStep(r)]_vars

\* a delete has counted no other application, another worker has applied
\* since, and the delete has removed its application
C17_Witness ==
    /\ Succeeded("deleteApplication")
    /\ AppRows(db, out.issue, "submitted") # {}
    /\ AppsOf(db, out.issue) = AppRows(db, out.issue, "submitted")
    /\ db.issues[out.issue].status = "applied"

\* the caller's application of the issue, as the store has it now
OwnRows(d, q) ==
    {a \in AppsOf(d, q.issue) : a.worker_id = q.user}

\* the step of a delete that answers: what it removes was the caller's
\* 'rejected' application, and on another status it fails and removes nothing
C18_DeleteStep(r) ==
    /\ db.apps \ db'.apps \subseteq
           {a \in OwnRows(db, reqs[r]) : a.status = "rejected"}
    /\ (\E a \in OwnRows(db, reqs[r]) : a.status # "rejected")
           => db'.apps = db.apps /\ out'.resp.code # 200

\* C18: deleteApplication removes an application only if it is 'rejected'
\* when the DELETE runs; on a 'submitted' or 'accepted' application the call
\* fails and removes nothing, also when other requests have written the
\* application between the status pre-check and the DELETE.
C18_OnlyRejectedIsDeleted ==
    [][\A r \in ReqIds :
           Answers(r, "deleteApplication", "tx") => C18_DeleteStep(r)]_vars

\* a delete has passed its pre-check on a 'rejected' application, the
\* application has been accepted since, and the delete has been refused
C18_Witness ==
    /\ out.op = "deleteApplication"
    /\ out.resp = Resp(400, "Application could not be deleted. It may have been already processed.")
    /\ \E a \in OwnRows(db, out) : a.status = "accepted"

DuplicateBid == Resp(409, "You have already applied for this issue")

\* C19: a worker has at most one application of an issue, and the apply of
\* a worker who already has one, made after or together with the first, is
\* answered 'You have already applied for this issue' and changes nothing.
C19_DuplicateGetsConflict ==
    [][\A r \in ReqIds :
           /\ Answers(r, "applyForIssue", "tx")
           /\ OwnRows(db, reqs[r]) # {}
           /\ db.issues[reqs[r].issue].status \in {"submitted", "applied"}
           => out'.resp = DuplicateBid /\ db' = db]_vars

\* C20: applyForIssue inserts an application only into an issue that is
\* 'submitted' or 'applied', so no 'submitted' application ever exists for
\* an issue that is 'assigned' or later.
C20_NoSubmittedRowOnClosedIssue ==
    \A a \in db.apps :
        a.status = "submitted"
            => db.issues[a.issue_id].status \in {"submitted", "applied"}

\* the issue is w's to prove: assigned to w, and assigned or in progress
MayProve(d, i, w) ==
    /\ d.issues[i].assigned_worker_id = w
    /\ d.issues[i].status \in {"assigned", "in_progress"}

\* the INSERT of a submission
ProofInsert(r) ==
    At(r, "submitWorkProof", "tx") \/ At(r, "submitProof", "insert")

\* C21: a proof row is created only when, as its INSERT runs, the submitter
\* is the worker the issue is assigned to and the issue is 'assigned' or
\* 'in_progress'; a submitWorkProof or submitProof call of another worker
\* or on another status fails, creates no row and leaves the issue as it is.
C21_ProofOnlyByAssignedWorker ==
    [][/\ \A p \in db'.proofs :
              (\A x \in db.proofs : x.proof_id # p.proof_id)
                  => MayProve(db, p.issue_id, p.worker_id)
       /\ \A r \in ReqIds :
              /\ ProofInsert(r)
              /\ reqs'[r] # reqs[r]
              /\ ~MayProve(db, reqs[r].issue, reqs[r].user)
              => db' = db /\ out'.resp.code \notin {200, 201}
       /\ out'.op \in SubmitOps /\ out'.resp.code \notin {200, 201}
              => db' = db]_vars

\* a submission passed its checks, the issue was given to another worker,
\* and the INSERT has been refused
C21_Witness ==
    /\ out.op \in SubmitOps
    /\ out.resp.code = 500
    /\ db.issues[out.issue].assigned_worker_id # out.user
    /\ db.issues[out.issue].status = "assigned"
    /\ db.proofs = {}

\* the assigned worker's submission on an 'assigned' issue without a proof
C22_SubmitStep(r) ==
    LET q == reqs[r]
    IN  (/\ Answers(r, "submitWorkProof", "tx")
         /\ db.issues[q.issue].status = "assigned"
         /\ db.issues[q.issue].assigned_worker_id = q.user
         /\ ProofRows(db, q.issue) = {})
            => /\ out'.resp.code = 200
               /\ db'.issues[q.issue].status = "under_review"
               /\ \E p \in ProofRows(db', q.issue) :
                      /\ p.worker_id = q.user
                      /\ p.verification_status = "pending"

\* the rejection of the pending proof of an issue under review
C22_RejectStep(r) ==
    LET q == reqs[r]
        old == {p \in db.proofs : p.proof_id = q.target}
    IN  (/\ Answers(r, "rejectProof", "update")
         /\ \E p \in old : /\ p.verification_status = "pending"
                           /\ db.issues[p.issue_id].status = "under_review")
            => /\ out'.resp.code = 200
               /\ \A p \in old :
                      /\ db'.issues[p.issue_id].status = "in_progress"
                      /\ \E x \in db'.proofs :
                             /\ x.proof_id = p.proof_id
                             /\ x.verification_status = "rejected"

\* the worker's next submission, the rejected proof being there
C22_ResubmitStep(r) ==
    LET q == reqs[r]
    IN  (/\ Answers(r, "submitWorkProof", "tx")
         /\ db.issues[q.issue].status = "in_progress"
         /\ db.issues[q.issue].assigned_worker_id = q.user
         /\ \E p \in ProofRows(db, q.issue) :
                p.verification_status = "rejected")
            => /\ out'.resp = Resp(409, "Proof already submitted for this issue")
               /\ db' = db

\* C22 (scenario B, each call run to its end before the next): the assigned
\* worker's submission on an 'assigned' issue leaves the issue
\* 'under_review' with a 'pending' proof; the rejection of that proof leaves
\* the issue 'in_progress' and the proof 'rejected'; the worker's next
\* submission is answered with the AlreadySubmitted conflict and leaves the
\* proof 'rejected' and the issue 'in_progress'.
C22_ScenarioB ==
    [][\A r \in ReqIds :
           C22_SubmitStep(r) /\ C22_RejectStep(r) /\ C22_ResubmitStep(r)]_vars

\* the proof has been rejected and the next submission has been refused
C22_Witness ==
    /\ out.op = "submitWorkProof"
    /\ out.resp = Resp(409, "Proof already submitted for this issue")
    /\ db.issues[out.issue].status = "in_progress"
    /\ \E p \in ProofRows(db, out.issue) :
           p.worker_id = out.user /\ p.verification_status = "rejected"

\* a worker's balance, as getWorkerSummary and createWithdrawal compute it
Balance(d, w) == Available(TotalEarnings(d, w), Withdrawn(d, w))

\* the approval of the pending proof of an issue under review
C23_ApproveStep(r) ==
    LET old == {p \in db.proofs : p.proof_id = reqs[r].target}
    IN  (/\ Answers(r, "approveProof", "update")
         /\ \E p \in old : /\ p.verification_status = "pending"
                           /\ db.issues[p.issue_id].status = "under_review")
            => /\ out'.resp.code = 200
               /\ \A p \in old : db'.issues[p.issue_id].status = "resolved"

\* the COMMIT of the payments of resolved issues
C23_PayStep(r) ==
    LET q == reqs[r]
    IN  (/\ Answers(r, "createPayments", "item")
         /\ q.num = q.amt
         /\ \A p \in q.tx : db.issues[p.issue_id].status = "resolved")
            => /\ out'.resp.code = 201
               /\ \A p \in q.tx :
                      /\ db'.issues[p.issue_id].status = "closed"
                      /\ p \in db'.payments
                      /\ p.payment_status = "completed"
               /\ \A w \in Workers :
                      TotalEarnings(db', w) =
                          TotalEarnings(db, w)
                              + SumAmount({p \in q.tx : p.worker_id = w})

\* a withdrawal of no more than the balance, and one of more
C23_WithdrawStep(r) ==
    LET q == reqs[r]
    IN  /\ (/\ At(r, "createWithdrawal", "withdrawn")
            /\ reqs'[r] # q
            /\ q.num = TotalEarnings(db, q.user))
               => IF q.amt <= Balance(db, q.user)
                  THEN reqs'[r].pc = "insert"
                  ELSE /\ out'.resp = Resp(400, "Insufficient balance")
                       /\ db' = db
        /\ (/\ Answers(r, "createWithdrawal", "insert")
            /\ q.amt <= Balance(db, q.user))
               => /\ out'.resp.code = 201
                  /\ Cardinality(db'.withdrawals)
                         = Cardinality(db.withdrawals) + 1
                  /\ Balance(db', q.user) = Balance(db, q.user) - q.amt

\* C23 (scenario C, each call run to its end before the next, whole
\* amounts): the approval of the pending proof leaves the issue 'resolved';
\* a payment to F1 leaves the issue 'closed', the payment 'completed' and
\* F1's balance raised by the amount; F1's withdrawal of the whole balance
\* succeeds and leaves the balance 0; a further withdrawal of 1 is answered
\* 'Insufficient balance' and creates no withdrawal.
C23_ScenarioC ==
    [][\A r \in ReqIds :
           C23_ApproveStep(r) /\ C23_PayStep(r) /\ C23_WithdrawStep(r)]_vars

\* approved, paid, withdrawn in full, and the next withdrawal of 1 refused
C23_Witness ==
    \E i \in Issues, f1 \in Workers :
        /\ out.op = "createWithdrawal" /\ out.user = f1 /\ out.amt = 1
        /\ out.resp = Resp(400, "Insufficient balance")
        /\ db.issues[i].status = "closed"
        /\ \E p \in ProofRows(db, i) : p.verification_status = "approved"
        /\ \E p \in PaymentRows(db, i) :
               /\ p.worker_id = f1 /\ p.payment_status = "completed"
               /\ p.amount = MaxAmount
               /\ Withdrawn(db, f1) = p.amount
        /\ Cardinality({x \in db.withdrawals : x.worker_id = f1}) = 1
        /\ Balance(db, f1) = 0

StartOps == {"updateWorkProgress", "updateProofProgress"}

\* the step in which a start-work call answers
C24_StartStep ==
    out'.op \in StartOps /\ out'.pc = "done"
        => LET i == out'.issue
               w == out'.user
           IN  IF /\ db.issues[i].status = "assigned"
                  /\ db.issues[i].assigned_worker_id = w
               THEN /\ out'.resp.code = 200
                    /\ db' = [db EXCEPT !.issues[i].status = "in_progress"]
               ELSE /\ out'.resp.code # 200
                    /\ db' = db

\* C24: start work (updateWorkProgress, updateProofProgress) moves an issue
\* to 'in_progress' only if, as the write runs, the issue is 'assigned' and
\* the caller is its worker; otherwise the call fails and leaves the issue
\* as it is, so the second of two calls on one assigned issue fails.
C24_StartOnlyFromAssigned ==
    [][C24_StartStep]_vars

\* the second of two calls that both read 'assigned' has been refused
C24_Witness ==
    /\ out.op = "updateWorkProgress"
    /\ out.resp = Resp(400, "Failed to start work. Issue may have been updated by another process.")
    /\ db.issues[out.issue].status = "in_progress"
    /\ db.issues[out.issue].assigned_worker_id = out.user
    /\ db.proofs = {}

\* C25: 'closed' is terminal: no step of any workflow operation changes the
\* status of an issue that is 'closed'.
C25_ClosedIsTerminal ==
    [][\A i \in Issues :
           db.issues[i].status = "closed"
               => db'.issues[i].status = "closed"]_vars

\* the answers to a request whose input does not pass the validation
ValidationAnswers ==
    {Resp(400, m) :
        m \in {"Feedback is required when rejecting an application",
               "Feedback is required when rejecting a proof",
               "Missing required fields: estimated_cost, estimated_time, proposal_description",
               "Estimated cost must be greater than 0",
               "Proposal description cannot be empty",
               "Invalid method",
               "Invalid withdrawal request",
               "No payments provided",
               "Missing fields in payment item"}}

\* C26: a request refused for its input (no or blank feedback, a cost that
\* is not positive or a missing field, a withdrawal amount that is not
\* positive or an unknown method, a payment item with a missing field, also
\* after earlier items of the call were inserted in the open transaction)
\* leaves applications, proofs, issues, payments and withdrawals as before.
C26_RefusedInputWritesNothing ==
    [][out'.resp \in ValidationAnswers /\ out'.pc = "done" => db' = db]_vars

\* a createPayments call has inserted its first item and has been refused
\* for its second
C26_Witness ==
    /\ out.op = "createPayments"
    /\ out.resp = Resp(400, "Missing fields in payment item")
    /\ out.num >= 1
    /\ db.payments = {}
    /\ \E i \in Issues : db.issues[i].status = "resolved"

\* C27: a createWithdrawal call one of whose two balance reads (the completed
\* payments, the withdrawals) has failed at the store gets a failure answer
\* (5xx) and inserts no withdrawal.
C27_FailedReadFailsTheCall ==
    [][\A r \in ReqIds :
           /\ reqs[r].op = "createWithdrawal"
           /\ reqs[r].st = "failed"
           /\ reqs'[r] # reqs[r]
           => /\ db'.withdrawals = db.withdrawals
              /\ out'.pc = "done" => out'.resp.code >= 500]_vars

\* a status endpoint's request whose status is a value other than the seven
OtherStatus(q) ==
    /\ q.op \in {"updateIssueStatus", "updateIssue"}
    /\ q.st \notin IssueStatuses \cup {Undefined}

\* C28: every issue's status is always one of the seven values, and an
\* updateIssueStatus or updateIssue call with another status value fails and
\* leaves the issue as it is.
C28_StatusIsOneOfSeven ==
    /\ [](\A i \in Issues : db.issues[i].status \in IssueStatuses)
    /\ [][\A r \in ReqIds :
              OtherStatus(reqs[r]) /\ Answers(r, reqs[r].op, "handler")
              => db'.issues = db.issues /\ out'.resp.code >= 400]_vars

\* C29: updateIssueStatus and updateIssue change an issue's status only along
\* an edge of the transition table; a request for a status that no edge
\* leads to from the issue's status is refused and the status stays.
C29_StatusEndpointsFollowEdges ==
    [][\A r \in ReqIds :
           /\ reqs[r].op \in {"updateIssueStatus", "updateIssue"}
           /\ Answers(r, reqs[r].op, "handler")
           /\ reqs[r].issue \in Issues
           => LET from == db.issues[reqs[r].issue].status
                  to == db'.issues[reqs[r].issue].status
              IN  /\ to # from => <<from, to>> \in LegalEdges
                  /\ (reqs[r].st # Undefined
                      /\ <<from, reqs[r].st>> \notin LegalEdges)
                         => to = from /\ out'.resp.code >= 400]_vars

\* the statuses of an issue that has been assigned
AssignedOrLater ==
    {"assigned", "in_progress", "under_review", "resolved", "closed"}

\* C30: the assigned worker of an issue, once an accept has set it, is never
\* changed, and an accept on an issue that is already assigned neither
\* assigns it to another worker nor moves its status back to 'assigned'.
C30_AssignedWorkerIsKept ==
    [][\A i \in Issues :
           /\ db.issues[i].assigned_worker_id # NULL
           /\ db.issues[i].status \in AssignedOrLater
           => /\ db'.issues[i].assigned_worker_id
                     = db.issues[i].assigned_worker_id
              /\ (\E r \in ReqIds : Answers(r, "acceptIssueApplication", "tx"))
                     /\ db.issues[i].status # "assigned"
                     => db'.issues[i].status # "assigned"]_vars

\* the issue statuses that go with a verification status of the evidence
StatusesOfVerdict(verification_status) ==
    IF verification_status = "pending" THEN {"under_review"}
    ELSE IF verification_status = "approved" THEN {"resolved", "closed"}
    ELSE {"in_progress"}

\* the write of a verdict on pending evidence sets, in the one step, the
\* evidence to the verdict and its issue to the verdict's status
C31_VerdictStep(r, op, verdict, status) ==
    \A p \in db.proofs :
        /\ p.proof_id = reqs[r].target
        /\ p.verification_status = "pending"
        /\ reqs[r].op = op
        => /\ \E x \in db'.proofs : /\ x.proof_id = p.proof_id
                                    /\ x.verification_status = verdict
           /\ db'.issues[p.issue_id].status = status

\* every evidence row's issue has a status that goes with the row's verdict
C31_IssueFollowsEvidence ==
    \A p \in db.proofs :
        db.issues[p.issue_id].status \in StatusesOfVerdict(p.verification_status)

\* C31: approveProof on pending evidence sets the evidence to 'approved' and
\* its issue to 'resolved', rejectProof sets them to 'rejected' and
\* 'in_progress', each in one step; so in every state pending evidence has
\* its issue 'under_review', approved evidence 'resolved' or 'closed', and
\* rejected evidence 'in_progress'.
C31_EvidenceAndIssueAgree ==
    /\ []C31_IssueFollowsEvidence
    /\ [][\A r \in ReqIds :
              VerdictWrite(r) /\ out'.resp.code = 200
              /\ Answers(r, reqs[r].op, "update")
              => /\ C31_VerdictStep(r, "approveProof", "approved", "resolved")
                 /\ C31_VerdictStep(r, "rejectProof", "rejected",
                                    "in_progress")]_vars

\* the step of a createPayments call that answers
C32_CallEnds(r) ==
    /\ reqs[r].op = "createPayments"
    /\ out'.pc = "done" /\ reqs'[r] = Idle /\ reqs[r] # Idle

\* the call has succeeded: every item of the batch has its 'completed'
\* payment in the store and the issue of every item is 'closed'
C32_All(r) ==
    /\ Cardinality(reqs[r].tx) = reqs[r].amt
    /\ \A p \in reqs[r].tx :
           /\ p \in db'.payments
           /\ p.payment_status = "completed"
           /\ db'.issues[p.issue_id].status = "closed"

\* the call has failed: the store has no payment of the batch, and no issue
\* has been closed
C32_Nothing(r) ==
    /\ db'.payments = db.payments
    /\ reqs[r].tx \cap db'.payments = {}
    /\ db'.issues = db.issues

C33_AssignedIssueHasItsAcceptedApplication ==
    \A i \in Issues :
        db.issues[i].status \in AssignedOrLater
        => /\ db.issues[i].assigned_worker_id # NULL
           /\ Cardinality(AppRows(db, i, "accepted")) = 1
           /\ \A a \in AppRows(db, i, "accepted") :
                  a.worker_id = db.issues[i].assigned_worker_id

\* C34: every payment row's worker is the assigned worker of the payment's
\* issue and its citizen is the issue's citizen, so that a completed payment
\* raises only the balance of the worker who was assigned to the paid issue.
C34_PaymentGoesToAssignedWorker ==
    \A p \in db.payments :
        /\ p.worker_id = db.issues[p.issue_id].assigned_worker_id
        /\ p.citizen_id = db.issues[p.issue_id].citizen_id

\* the evidence of issue i is 'rejected' and no request is in flight: every
\* request from here on starts after the rejection has committed
C35_RejectedAndQuiet(i) ==
    /\ \E p \in ProofRows(db, i) : p.verification_status = "rejected"
    /\ \A r \in ReqIds : Free(r)

\* C35: once a rejectProof on an issue's evidence has committed, no
\* operation of the proof workflow that starts afterwards makes the issue
\* 'under_review' or 'resolved' again: a later submission fails on the
\* one-evidence-per-issue constraint, a later approveProof on the status
\* that is not 'pending', and the issue stays 'in_progress'.
C35_RejectedIssueStaysInProgress ==
    \A i \in Issues :
        [](C35_RejectedAndQuiet(i) => [](db.issues[i].status = "in_progress"))

\* after a rejection a submission has been refused for the evidence that is
\* there, and the issue is 'in_progress'
C35_Witness ==
    /\ out.op = "submitWorkProof"
    /\ out.resp = Resp(409, "Proof already submitted for this issue")
    /\ \E p \in ProofRows(db, out.issue) : p.verification_status = "rejected"
    /\ db.issues[out.issue].status = "in_progress"

\* the handlers that insert a row for their caller, and those that record
\* their caller as the reviewer
WorkerOps == {"applyForIssue", "submitWorkProof", "submitProof"}
AdminOps ==
    {"acceptIssueApplication", "rejectIssueApplication", "approveProof",
     "rejectProof"}

\* the caller of request q has not the role its handler is for
WrongRole(q) ==
    \/ q.op \in WorkerOps /\ UserType(q.user) # "worker"
    \/ q.op \in AdminOps /\ UserType(q.user) # "admin"

\* the rows of the store obey the role rules
C36_RowsObeyRoles ==
    /\ \A a \in db.apps :
           /\ UserType(a.worker_id) = "worker"
           /\ a.status \in {"accepted", "rejected"} /\ a.reviewed_by # NULL
                  => UserType(a.reviewed_by) = "admin"
    /\ \A p \in db.proofs :
           /\ UserType(p.worker_id) = "worker"
           /\ p.verification_status \in {"approved", "rejected"}
                  /\ p.verified_by # NULL
                  => UserType(p.verified_by) = "admin"

C37_MovedToRejected(q) ==
    {a \in AppRows(db, q.issue, "submitted") :
        \E b \in AppRows(db', q.issue, "rejected") :
            b.application_id = a.application_id}

\* C37: the otherApplicationsRejected value of a successful
\* acceptIssueApplication is the number of the issue's applications that the
\* call has moved from 'submitted' to 'rejected'.
C37_CountOfRejectedIsReturned ==
    [][\A r \in ReqIds :
           Answers(r, "acceptIssueApplication", "tx") /\ out'.resp.code = 200
           => out'.resp.n = Cardinality(C37_MovedToRejected(reqs[r]))]_vars

\* the calls that hold a client of the pool
Holders == {r \in ReqIds : reqs[r].target # NULL}

\* the clients that are checked out are those that calls in flight hold
C38_PoolIsBalanced ==
    db.checkedOut = Cardinality({r \in ReqIds :
                                    reqs[r].op \in PoolOps
                                    /\ reqs[r].target # NULL})

\* the call r ends: it holds no client, the pool has as many clients
\* checked out as before the call took its own, and the transaction it has
\* begun has been ended by one COMMIT or ROLLBACK
C38_CallEnds(r) ==
    /\ out'.target = NULL
    /\ db'.checkedOut = Cardinality(Holders \ {r})
    /\ out'.num = IF out'.st = "null" THEN 0 ELSE 1
    /\ out'.st \in {"null", "committed", "rolledback"}

====
